---- MODULE Spec2Model ----
(***************************************************************************)
(* SkyMatrix: 2D prefix-sum index, quadrant region tree, z-score anomaly   *)
(* detector and query engine (top-K heap, connected components).           *)
(*                                                                         *)
(* Conventions of the model                                                *)
(*  - A Matrix is a sequence of rows; the C++ cell image[r][c] is          *)
(*    image[r+1][c+1] here.  The prefix tables keep the C++ indices        *)
(*    0..height, 0..width.                                                 *)
(*  - int64_t / int values stay far below their width for the rasters      *)
(*    explored, so they are plain integers.                                *)
(*  - A double is an exact rational [n, d] (d > 0, lowest terms).  A value *)
(*    obtained by dividing by globalStdDev = sqrt(v) is the pair           *)
(*    [num, root] standing for num / sqrt(root); comparisons are decided   *)
(*    exactly on the squares.                                              *)
(***************************************************************************)
EXTENDS Integers, Sequences, FiniteSets, TLC

\* Largest raster with free content: MaxH rows by MaxW columns.
MaxH == 3
MaxW == 3
\* Free rasters: pixel values sum to at most MaxSum.
MaxSum == 2
\* Blank (all-zero) square rasters are explored up to MaxBlankDim x MaxBlankDim.
MaxBlankDim == 19
\* RegionTree::build is explored when the capacity it reserves is at most
\* MaxReserve nodes.
MaxReserve == 50
\* minSize passed to RegionTree::build ranges over 1..MaxMinSize.
MaxMinSize == 4
\* k passed to the top-K queries ranges over 1..MaxK, and LargeK.
MaxK == 2
\* One large k, above the number of leaves that the traversal from the root
\* reaches in the smaller trees.
LargeK == 13
\* Region::isAdjacentTo is applied to the regions with corners in 0..MaxCoord.
MaxCoord == 2

\* The gradient rasters have 2..MaxGradientSize rows and as many columns.
MaxGradientSize == 4

\* UnionFind on its own has 1..MaxElements elements.
MaxElements == 4

\* the largest number of bright cells of a 3 x 3 raster
MaxBright == 3

VARIABLES image, ps, tree, det, engine, result, pc, probe, dsu, kept

vars == <<image, ps, tree, det, engine, result, pc, probe, dsu, kept>>

-----------------------------------------------------------------------------
(* Exact arithmetic standing for double *)

Abs(x) == IF x < 0 THEN -x ELSE x

Max(a, b) == IF a < b THEN b ELSE a

Min(a, b) == IF b < a THEN b ELSE a

RECURSIVE GCD(_, _)
GCD(a, b) == IF b = 0 THEN a ELSE GCD(b, a % b)

Rat(n, d) ==
    LET s == IF d < 0 THEN -1 ELSE 1
        g == GCD(Abs(n), Abs(d))
    IN  [n |-> (s * n) \div g, d |-> (s * d) \div g]

RatZero == [n |-> 0, d |-> 1]

RatOne == [n |-> 1, d |-> 1]

RatSub(x, y) == Rat(x.n * y.d - y.n * x.d, x.d * y.d)

RatMul(x, y) == Rat(x.n * y.n, x.d * y.d)

RatAbs(x) == [n |-> Abs(x.n), d |-> x.d]

\* x < y, the common factor of the denominators divided out before the
\* products are taken
RatLess(x, y) ==
    LET g == GCD(x.d, y.d)
    IN  IF g = 0 THEN FALSE
        ELSE x.n * (y.d \div g) < y.n * (x.d \div g)

RatMax(x, y) == IF RatLess(x, y) THEN y ELSE x

\* num / sqrt(root)
Real(num, root) == [num |-> num, root |-> root]

RealZero == Real(RatZero, RatOne)

\* x < y for non-negative x, y
RealLess(x, y) ==
    IF x.root = y.root
    THEN RatLess(x.num, y.num)
    ELSE RatLess(RatMul(RatMul(x.num, x.num), y.root),
                 RatMul(RatMul(y.num, y.num), x.root))

-----------------------------------------------------------------------------
(* Utils.h / Utils.cpp: Region *)

Region(r1, c1, r2, c2) == [row1 |-> r1, col1 |-> c1, row2 |-> r2, col2 |-> c2]

area(r) == (r.row2 - r.row1 + 1) * (r.col2 - r.col1 + 1)

isValid(r) == r.row1 <= r.row2 /\ r.col1 <= r.col2

contains(r, row, col) ==
    row >= r.row1 /\ row <= r.row2 /\ col >= r.col1 /\ col <= r.col2

\* isAdjacentTo without the requirement that the touching sides overlap
isAdjacentToAnyTouch(a, other) ==
    LET xOverlap == ~(a.col2 < other.col1 \/ other.col2 < a.col1)
        yOverlap == ~(a.row2 < other.row1 \/ other.row2 < a.row1)
    IN  IF xOverlap /\ yOverlap THEN FALSE
        ELSE IF a.col2 + 1 = other.col1 \/ other.col2 + 1 = a.col1 THEN TRUE
        ELSE IF a.row2 + 1 = other.row1 \/ other.row2 + 1 = a.row1 THEN TRUE
        ELSE FALSE

isAdjacentTo(a, other) ==
    LET xOverlap == ~(a.col2 < other.col1 \/ other.col2 < a.col1)
        yOverlap == ~(a.row2 < other.row1 \/ other.row2 < a.row1)
    IN  IF xOverlap /\ yOverlap THEN FALSE
        ELSE IF yOverlap /\ (a.col2 + 1 = other.col1 \/ other.col2 + 1 = a.col1)
        THEN TRUE
        ELSE IF xOverlap /\ (a.row2 + 1 = other.row1 \/ other.row2 + 1 = a.row1)
        THEN TRUE
        ELSE FALSE

-----------------------------------------------------------------------------
(* PrefixSum *)

\* f as an explicit table of values (f @@ f = f), the form TLC updates in place
Table(f) == f @@ f

\* e, with x computed first: TLC otherwise defers x and nests the deferred
\* computations of a long loop
Then(x, e) == IF x = x THEN e ELSE e

NoTable == [i \in {} |-> 0]

PrefixSumNew ==
    [height |-> 0, width |-> 0, built |-> FALSE,
     globalMean |-> RatZero, globalVariance |-> RatZero, globalStdDev |-> RatZero,
     totalSum |-> 0, totalPixels |-> 0,
     prefix |-> NoTable, prefixSquares |-> NoTable]

ZeroTable(h, w) == Table([i \in 0..h |-> Table([j \in 0..w |-> 0])])

\* the recurrence of build without the term that removes the doubly counted
\* corner
PrefixCellNoCorner(tab, value, i, j) ==
    value + tab[i-1][j] + tab[i][j-1]

PrefixCell(tab, value, i, j) ==
    value + tab[i-1][j] + tab[i][j-1] - tab[i-1][j-1]

\* The body of the inner loop of build: cell (i, j) of the table tab
BuildCell(tab, imgRow, square, i, j) ==
    LET pixelValue == imgRow[j]
    IN  [tab EXCEPT ![i][j] =
             PrefixCell(tab, IF square THEN pixelValue * pixelValue
                             ELSE pixelValue, i, j)]

\* The inner loop of build over the columns lo..hi of row i, in ascending
\* order; the range is run as its lower half followed by its upper half.
RECURSIVE BuildRow(_, _, _, _, _, _)
BuildRow(tab, imgRow, square, i, lo, hi) ==
    IF lo > hi THEN tab
    ELSE IF lo = hi THEN BuildCell(tab, imgRow, square, i, lo)
    ELSE LET mid == (lo + hi) \div 2
             lower == BuildRow(tab, imgRow, square, i, lo, mid)
         IN  Then(lower, BuildRow(lower, imgRow, square, i, mid + 1, hi))

\* The outer loop of build over the rows lo..hi, in ascending order.  The two
\* tables are filled by the same recurrence and do not read each other, so
\* each is carried on its own.
RECURSIVE BuildLoop(_, _, _, _, _)
BuildLoop(tab, img, square, lo, hi) ==
    IF lo > hi THEN tab
    ELSE IF lo = hi THEN BuildRow(tab, img[lo], square, lo, 1, Len(img[lo]))
    ELSE LET mid == (lo + hi) \div 2
             lower == BuildLoop(tab, img, square, lo, mid)
         IN  Then(lower, BuildLoop(lower, img, square, mid + 1, hi))

\* PrefixSum::build applied to the object self
build(self, img) ==
    IF Len(img) = 0 \/ Len(img[1]) = 0 THEN self
    ELSE LET h == Len(img)
             w == Len(img[1])
             n == h * w
             tabs == [prefix |-> BuildLoop(ZeroTable(h, w), img, FALSE, 1, h),
                      prefixSquares |-> BuildLoop(ZeroTable(h, w), img, TRUE, 1, h)]
             total == tabs.prefix[h][w]
             mean == Rat(total, n)
             meanOfSquares == Rat(tabs.prefixSquares[h][w], n)
             variance == RatSub(meanOfSquares, RatMul(mean, mean))
         IN  [height |-> h, width |-> w, built |-> TRUE,
              globalMean |-> mean, globalVariance |-> variance,
              \* globalStdDev = sqrt(max(0, variance)): the radicand is kept
              globalStdDev |-> RatMax(RatZero, variance),
              totalSum |-> total, totalPixels |-> n,
              prefix |-> tabs.prefix, prefixSquares |-> tabs.prefixSquares]

InclusionExclusion(tab, r1, c1, r2, c2) ==
    tab[r2+1][c2+1] - tab[r1][c2+1] - tab[r2+1][c1] + tab[r1][c1]

RangeQuery(self, tab, r1, c1, r2, c2) ==
    IF ~self.built THEN 0
    ELSE LET a1 == Max(0, r1)
             b1 == Max(0, c1)
             a2 == Min(self.height - 1, r2)
             b2 == Min(self.width - 1, c2)
         IN  IF a1 > a2 \/ b1 > b2 THEN 0
             ELSE InclusionExclusion(tab, a1, b1, a2, b2)

querySum(self, r) == RangeQuery(self, self.prefix, r.row1, r.col1, r.row2, r.col2)

querySumSquares(self, r) ==
    RangeQuery(self, self.prefixSquares, r.row1, r.col1, r.row2, r.col2)

queryMean(self, r) ==
    IF ~self.built THEN RatZero
    ELSE IF area(r) > 0 THEN Rat(querySum(self, r), area(r)) ELSE RatZero

RegionStatsZero ==
    [mean |-> RatZero, variance |-> RatZero, stdDev |-> RatZero, sum |-> 0, area |-> 0]

\* queryStats without the test of isBuilt
queryStatsUnchecked(self, r) ==
    IF r.row1 > r.row2 \/ r.col1 > r.col2 THEN RegionStatsZero
    ELSE [RegionStatsZero EXCEPT !.sum = querySum(self, r), !.area = area(r)]

queryStats(self, r) ==
    IF ~self.built \/ r.row1 > r.row2 \/ r.col1 > r.col2 THEN RegionStatsZero
    ELSE LET s == querySum(self, r)
             a == area(r)
         IN  IF a = 0 THEN [RegionStatsZero EXCEPT !.sum = s]
             ELSE LET mean == Rat(s, a)
                      meanOfSquares == Rat(querySumSquares(self, r), a)
                      variance == RatMax(RatZero,
                                         RatSub(meanOfSquares, RatMul(mean, mean)))
                  IN  [mean |-> mean, variance |-> variance,
                       \* stdDev = sqrt(variance): the radicand is kept
                       stdDev |-> variance, sum |-> s, area |-> a]

-----------------------------------------------------------------------------
(* RegionTree *)

NoChildren == <<-1, -1, -1, -1>>

\* RegionTreeNode(): the default-constructed node
RegionTreeNode ==
    [id |-> -1, bounds |-> Region(0, 0, 0, 0), stats |-> RegionStatsZero,
     anomalyScore |-> RealZero, isAnomaly |-> FALSE, depth |-> 0,
     children |-> NoChildren, parent |-> -1]

isLeaf(node) == \A i \in 1..4 : node.children[i] = -1

\* nodes[idx] for a C++ index idx
NodeAt(nodes, idx) == nodes[idx + 1]

RegionTreeNew ==
    [nodes |-> <<>>, prefixSum |-> "null", rootIndex |-> -1, nodeCount |-> 0,
     leafCount |-> 0, maxDepth |-> 0, minRegionSize |-> 16,
     capacity |-> 0, reallocs |-> 0, staleWrites |-> 0]

\* splitRegion with the cell at the midpoint given to the later quadrants
splitRegionSmallerFirst(region) ==
    LET midRow == region.row1 + ((region.row2 - region.row1 + 1) \div 2) - 1
        midCol == region.col1 + ((region.col2 - region.col1 + 1) \div 2) - 1
    IN  << Region(region.row1, region.col1, midRow, midCol),
           Region(region.row1, midCol + 1, midRow, region.col2),
           Region(midRow + 1, region.col1, region.row2, midCol),
           Region(midRow + 1, midCol + 1, region.row2, region.col2) >>

\* quadrants[0..3] are positions 1..4: NW, NE, SW, SE
splitRegion(region) ==
    LET midRow == (region.row1 + region.row2) \div 2
        midCol == (region.col1 + region.col2) \div 2
    IN  << Region(region.row1, region.col1, midRow, midCol),
           Region(region.row1, midCol + 1, midRow, region.col2),
           Region(midRow + 1, region.col1, region.row2, midCol),
           Region(midRow + 1, midCol + 1, region.row2, region.col2) >>

computeNodeStats(index, t, node) ==
    IF t.prefixSum = "null" \/ ~index.built THEN node
    ELSE [node EXCEPT !.stats = queryStats(index, node.bounds)]

\* nodes.emplace_back(): beyond the capacity the vector moves to new storage
\* (capacity doubles), which invalidates every reference taken before.
EmplaceBack(t) ==
    LET grow == Len(t.nodes) + 1 > t.capacity
    IN  [t EXCEPT !.nodes = Append(t.nodes, RegionTreeNode),
                  !.capacity = IF grow THEN Max(1, 2 * t.capacity) ELSE @,
                  !.reallocs = IF grow THEN @ + 1 ELSE @]

\* node.children[i] = child, written through the reference `node` that the
\* frame of nodeIdx took when the vector had moved `epoch` times.  A write
\* through a reference invalidated since then does not reach the live node.
StoreChild(t, nodeIdx, epoch, i, child) ==
    IF t.reallocs = epoch
    THEN [t EXCEPT !.nodes[nodeIdx + 1].children[i] = child]
    ELSE [t EXCEPT !.staleWrites = @ + 1]

RECURSIVE buildRecursive(_, _, _, _, _)
RECURSIVE BuildQuadrants(_, _, _, _, _, _, _)

\* the loop i = 0..3 of buildRecursive (i is the position 1..4 here)
BuildQuadrants(index, t, quadrants, i, depth, nodeIdx, epoch) ==
    IF i > 4 THEN t
    ELSE IF isValid(quadrants[i])
    THEN LET r == buildRecursive(index, t, quadrants[i], depth + 1, nodeIdx)
             stored == StoreChild(r.t, nodeIdx, epoch, i, r.idx)
         IN  Then(stored, BuildQuadrants(index, stored, quadrants, i + 1, depth,
                                         nodeIdx, epoch))
    ELSE BuildQuadrants(index, t, quadrants, i + 1, depth, nodeIdx, epoch)

\* returns the tree and the index of the node created
buildRecursive(index, t, region, depth, parentIdx) ==
    LET nodeIdx == Len(t.nodes)
        t1 == EmplaceBack(t)
        node == computeNodeStats(index, t1,
                    [RegionTreeNode EXCEPT !.id = nodeIdx, !.bounds = region,
                                           !.depth = depth, !.parent = parentIdx,
                                           !.children = NoChildren])
        t2 == [t1 EXCEPT !.nodes[nodeIdx + 1] = node,
                         !.maxDepth = Max(@, depth),
                         !.nodeCount = @ + 1]
        regionHeight == region.row2 - region.row1 + 1
        regionWidth == region.col2 - region.col1 + 1
    IN  IF regionHeight <= t.minRegionSize \/ regionWidth <= t.minRegionSize
        THEN [t |-> [t2 EXCEPT !.leafCount = @ + 1], idx |-> nodeIdx]
        ELSE [t |-> BuildQuadrants(index, t2, splitRegion(region), 1, depth,
                                   nodeIdx, t2.reallocs),
              idx |-> nodeIdx]

estimatedNodes(index, minSize) ==
    ((index.height \div minSize) + 1) * ((index.width \div minSize) + 1) * 2

\* RegionTree::build(&index, minSize) applied to the tree t
treeBuild(t, index, minSize) ==
    IF ~index.built THEN t
    ELSE LET t0 == [t EXCEPT !.prefixSum = "ps", !.minRegionSize = minSize,
                             !.nodes = <<>>, !.nodeCount = 0, !.leafCount = 0,
                             !.maxDepth = 0,
                             !.capacity = Max(@, estimatedNodes(index, minSize))]
             fullImage == Region(0, 0, index.height - 1, index.width - 1)
             r == buildRecursive(index, t0, fullImage, 0, -1)
         IN  [r.t EXCEPT !.rootIndex = r.idx]

getLeaves(t) == SelectSeq(t.nodes, isLeaf)

-----------------------------------------------------------------------------
(* AnomalyDetector *)

RealAdd(x, y) ==
    IF x.num.n = 0 THEN y
    ELSE IF y.num.n = 0 THEN x
    ELSE Real(Rat(x.num.n * y.num.d + y.num.n * x.num.d, x.num.d * y.num.d), x.root)

RealDivInt(x, k) == Real(Rat(x.num.n, x.num.d * k), x.root)

\* std::numeric_limits<double>::max(): above every score
DblMax == Real([n |-> 1, d |-> 0], RatOne)

AnomalyStatsNew ==
    [totalRegions |-> 0, anomalousRegions |-> 0, minScore |-> RealZero,
     maxScore |-> RealZero, meanScore |-> RealZero]

\* AnomalyDetector(threshold)
AnomalyDetector(threshold) ==
    [prefixSum |-> "null", threshold |-> threshold, globalMean |-> RatZero,
     globalStdDev |-> RatZero, stats |-> AnomalyStatsNew,
     detectionComplete |-> FALSE]

\* AnomalyDetector::initialize(&index)
initialize(d, index) ==
    IF index.built
    THEN [d EXCEPT !.prefixSum = "ps", !.globalMean = index.globalMean,
                   !.globalStdDev = index.globalStdDev,
                   !.detectionComplete = FALSE]
    ELSE [d EXCEPT !.prefixSum = "ps", !.detectionComplete = FALSE]

\* globalStdDev < 1e-10.  globalStdDev is sqrt of a rational whose denominator
\* is at most totalPixels^2, far below 1e20, so it is below 1e-10 exactly when
\* the radicand is 0.
StdDevBelowEpsilon(sd) == sd.n = 0

\* computeScore without the absolute value of the deviation
computeScoreSigned(d, index, region) ==
    IF d.prefixSum = "null" \/ ~index.built THEN RealZero
    ELSE IF StdDevBelowEpsilon(d.globalStdDev) THEN RealZero
    ELSE Real(RatSub(queryMean(index, region), d.globalMean), d.globalStdDev)

\* computeScore that scores every region 3 where the standard deviation
\* vanishes
computeScoreFlatAsOutlier(d, index, region) ==
    IF d.prefixSum = "null" \/ ~index.built THEN RealZero
    ELSE IF StdDevBelowEpsilon(d.globalStdDev) THEN Real(Rat(3, 1), RatOne)
    ELSE Real(RatAbs(RatSub(queryMean(index, region), d.globalMean)),
              d.globalStdDev)

computeScore(d, index, region) ==
    IF d.prefixSum = "null" \/ ~index.built THEN RealZero
    ELSE IF StdDevBelowEpsilon(d.globalStdDev) THEN RealZero
    ELSE LET regionMean == queryMean(index, region)
             deviation == RatAbs(RatSub(regionMean, d.globalMean))
         IN  Real(deviation, d.globalStdDev)

\* isAnomalous(score): score > threshold
isAnomalous(d, score) == RealLess(Real(d.threshold, RatOne), score)

\* one iteration of the loop of detectInTree; acc = [nodes, stats, totalScore]
DetectNode(d, index, acc, i) ==
    LET score == computeScore(d, index, acc.nodes[i].bounds)
        node == [acc.nodes[i] EXCEPT !.anomalyScore = score,
                                     !.isAnomaly = isAnomalous(d, score)]
        st == acc.stats
    IN  [nodes |-> [acc.nodes EXCEPT ![i] = node],
         stats |-> IF isLeaf(node)
                   THEN [st EXCEPT !.totalRegions = @ + 1,
                                   !.minScore = IF RealLess(score, @) THEN score ELSE @,
                                   !.maxScore = IF RealLess(@, score) THEN score ELSE @,
                                   !.anomalousRegions =
                                        IF node.isAnomaly THEN @ + 1 ELSE @]
                   ELSE st,
         totalScore |-> IF isLeaf(node) THEN RealAdd(acc.totalScore, score)
                        ELSE acc.totalScore]

\* the loop of detectInTree over the nodes lo..hi, in ascending order; the
\* range is run as its lower half followed by its upper half
RECURSIVE DetectLoop(_, _, _, _, _)
DetectLoop(d, index, acc, lo, hi) ==
    IF lo > hi THEN acc
    ELSE IF lo = hi THEN DetectNode(d, index, acc, lo)
    ELSE LET mid == (lo + hi) \div 2
             lower == DetectLoop(d, index, acc, lo, mid)
         IN  Then(lower, DetectLoop(d, index, lower, mid + 1, hi))

\* detectInTree without the test of the index
detectInTreeUnchecked(d, index, t) ==
    LET acc == DetectLoop(d, index,
                   [nodes |-> t.nodes,
                    stats |-> [d.stats EXCEPT !.totalRegions = 0,
                                              !.anomalousRegions = 0,
                                              !.minScore = DblMax,
                                              !.maxScore = RealZero],
                    totalScore |-> RealZero], 1, Len(t.nodes))
    IN  [det |-> [d EXCEPT !.stats = acc.stats, !.detectionComplete = TRUE],
         tree |-> [t EXCEPT !.nodes = acc.nodes]]

\* AnomalyDetector::detectInTree(tree): the detector and the tree afterwards
detectInTree(d, index, t) ==
    IF d.prefixSum = "null" \/ ~index.built THEN [det |-> d, tree |-> t]
    ELSE LET acc == DetectLoop(d, index,
                        [nodes |-> t.nodes,
                         stats |-> [d.stats EXCEPT !.totalRegions = 0,
                                                   !.anomalousRegions = 0,
                                                   !.minScore = DblMax,
                                                   !.maxScore = RealZero],
                         totalScore |-> RealZero], 1, Len(t.nodes))
             mean == IF acc.stats.totalRegions > 0
                     THEN RealDivInt(acc.totalScore, acc.stats.totalRegions)
                     ELSE RealZero
         IN  [det |-> [d EXCEPT !.stats = [acc.stats EXCEPT !.meanScore = mean],
                                !.detectionComplete = TRUE],
              tree |-> [t EXCEPT !.nodes = acc.nodes]]

-----------------------------------------------------------------------------
(* AnomalyRegion and the heap of the top-K queries *)

AnomalyRegion(r, score, id) == [region |-> r, anomalyScore |-> score, nodeId |-> id]

\* AnomalyRegion::operator<
operatorLess(a, other) == RealLess(other.anomalyScore, a.anomalyScore)

\* AnomalyRegion::operator>
operatorGreater(a, other) == RealLess(a.anomalyScore, other.anomalyScore)

\* std::greater<AnomalyRegion>, the Compare of the priority_queue: a > b
HeapCompare(a, b) == operatorGreater(a, b)

\* h[i] for a C++ index i
At(h, i) == h[i + 1]

Put(h, i, v) == [h EXCEPT ![i + 1] = v]

\* std::__push_heap
RECURSIVE PushHeap(_, _, _, _)
PushHeap(h, holeIndex, topIndex, value) ==
    LET parent == (holeIndex - 1) \div 2
    IN  IF holeIndex > topIndex /\ HeapCompare(At(h, parent), value)
        THEN PushHeap(Put(h, holeIndex, At(h, parent)), parent, topIndex, value)
        ELSE Put(h, holeIndex, value)

\* the descent of std::__adjust_heap: [h, hole, second]
RECURSIVE AdjustDown(_, _, _, _)
AdjustDown(h, holeIndex, secondChild, len) ==
    IF secondChild < (len - 1) \div 2
    THEN LET s0 == 2 * (secondChild + 1)
             s1 == IF HeapCompare(At(h, s0), At(h, s0 - 1)) THEN s0 - 1 ELSE s0
         IN  AdjustDown(Put(h, holeIndex, At(h, s1)), s1, s1, len)
    ELSE [h |-> h, hole |-> holeIndex, second |-> secondChild]

\* std::__adjust_heap
AdjustHeap(h, holeIndex, len, value) ==
    LET d == AdjustDown(h, holeIndex, holeIndex, len)
        e == IF len % 2 = 0 /\ d.second = (len - 2) \div 2
             THEN LET s0 == 2 * (d.second + 1)
                  IN  [h |-> Put(d.h, d.hole, At(d.h, s0 - 1)), hole |-> s0 - 1]
             ELSE [h |-> d.h, hole |-> d.hole]
    IN  PushHeap(e.h, e.hole, holeIndex, value)

\* priority_queue::push: push_back, then push_heap
HeapPush(h, v) == PushHeap(Append(h, v), Len(h), 0, v)

\* priority_queue::top
HeapTop(h) == h[1]

\* priority_queue::pop: pop_heap, then pop_back
HeapPop(h) ==
    IF Len(h) <= 1 THEN <<>>
    ELSE LET value == h[Len(h)]
         IN  AdjustHeap(SubSeq(h, 1, Len(h) - 1), 0, Len(h) - 1, value)

\* while (!minHeap.empty()) { regions.push_back(top()); pop(); }
RECURSIVE DrainHeap(_, _)
DrainHeap(h, out) ==
    IF Len(h) = 0 THEN out ELSE DrainHeap(HeapPop(h), Append(out, HeapTop(h)))

Reverse(s) == [i \in 1..Len(s) |-> s[Len(s) + 1 - i]]

\* a heap that takes every candidate, whatever its size
OfferAlways(h, ar, k) == HeapPush(h, ar)

\* a heap that, once full, keeps what it holds
OfferNever(h, ar, k) == IF Len(h) < k THEN HeapPush(h, ar) ELSE h

\* if (size < k) push; else if (ar.score > top().score) { pop; push }
Offer(h, ar, k) ==
    IF Len(h) < k THEN HeapPush(h, ar)
    ELSE IF RealLess(HeapTop(h).anomalyScore, ar.anomalyScore)
    THEN HeapPush(HeapPop(h), ar)
    ELSE h

QueryResultNew == [regions |-> <<>>, nodesVisited |-> 0, nodesPruned |-> 0]

-----------------------------------------------------------------------------
(* QueryEngine: top-K *)

\* QueryEngine()
QueryEngineNew == [regionTree |-> "null", prefixSum |-> "null", detector |-> "null"]

\* QueryEngine::initialize(&tree, &index, &detector)
engineInitialize(e) ==
    [e EXCEPT !.regionTree = "tree", !.prefixSum = "ps", !.detector = "det"]

\* one iteration of the scan of topKAnomalies; acc = [heap, visited]
TopKVisit(nodes, i, k, leafOnly, acc) ==
    IF leafOnly /\ ~isLeaf(nodes[i]) THEN acc
    ELSE LET node == nodes[i]
             ar == AnomalyRegion(node.bounds, node.anomalyScore, node.id)
         IN  [heap |-> Offer(acc.heap, ar, k), visited |-> acc.visited + 1]

\* the scan of topKAnomalies over the nodes lo..hi, in ascending order
RECURSIVE TopKScan(_, _, _, _, _, _)
TopKScan(nodes, lo, hi, k, leafOnly, acc) ==
    IF lo > hi THEN acc
    ELSE IF lo = hi THEN TopKVisit(nodes, lo, k, leafOnly, acc)
    ELSE LET mid == (lo + hi) \div 2
             lower == TopKScan(nodes, lo, mid, k, leafOnly, acc)
         IN  Then(lower, TopKScan(nodes, mid + 1, hi, k, leafOnly, lower))

topKAnomalies(e, t, k, leafOnly) ==
    IF e.regionTree = "null" THEN QueryResultNew ELSE
    LET acc == TopKScan(t.nodes, 1, Len(t.nodes), k, leafOnly,
                        [heap |-> <<>>, visited |-> 0])
    IN  [regions |-> Reverse(DrainHeap(acc.heap, <<>>)),
         nodesVisited |-> acc.visited, nodesPruned |-> 0]

ChildrenToVisit(node) ==
    SelectSeq(node.children, LAMBDA c : c >= 0)

\* one iteration of the while loop of topKWithPruning;
\* s = [toVisit, heap, visited, pruned]
PruneVisit(nodes, k, s) ==
    IF Len(s.toVisit) = 0 THEN s
    ELSE LET idx == Head(s.toVisit)
             rest == Tail(s.toVisit)
         IN  IF idx < 0 \/ idx >= Len(nodes) THEN [s EXCEPT !.toVisit = rest]
             ELSE LET node == NodeAt(nodes, idx)
                      canPrune == /\ Len(s.heap) >= k
                                  /\ RealLess(node.anomalyScore,
                                              HeapTop(s.heap).anomalyScore)
                  IN  IF canPrune /\ ~isLeaf(node)
                      THEN [s EXCEPT !.toVisit = rest, !.visited = @ + 1,
                                     !.pruned = @ + 1]
                      ELSE IF isLeaf(node)
                      THEN [s EXCEPT !.toVisit = rest, !.visited = @ + 1,
                                     !.heap = Offer(@, AnomalyRegion(node.bounds,
                                                 node.anomalyScore, node.id), k)]
                      ELSE [s EXCEPT !.toVisit = rest \o ChildrenToVisit(node),
                                     !.visited = @ + 1]

\* n iterations of the while loop, run as two halves
RECURSIVE PruneRun(_, _, _, _)
PruneRun(nodes, k, s, n) ==
    IF n <= 1 THEN PruneVisit(nodes, k, s)
    ELSE LET half == PruneRun(nodes, k, s, n \div 2)
         IN  Then(half, PruneRun(nodes, k, half, n - n \div 2))

\* while (!toVisit.empty()): the iterations are run a batch at a time until
\* the queue is empty
RECURSIVE PruneScan(_, _, _)
PruneScan(nodes, k, s) ==
    IF Len(s.toVisit) = 0 THEN s
    ELSE LET batch == PruneRun(nodes, k, s, Len(nodes))
         IN  Then(batch, PruneScan(nodes, k, batch))

topKWithPruning(e, t, k) ==
    IF e.regionTree = "null" THEN QueryResultNew ELSE
    LET acc == PruneScan(t.nodes, k,
                         [toVisit |-> <<0>>, heap |-> <<>>, visited |-> 0,
                          pruned |-> 0])
    IN  [regions |-> Reverse(DrainHeap(acc.heap, <<>>)),
         nodesVisited |-> acc.visited, nodesPruned |-> acc.pruned]

-----------------------------------------------------------------------------
(* RegionTree::queryRegion and QueryEngine::queryRectangle *)

\* bool intersects = !(bounds.row2 < q.row1 || bounds.row1 > q.row2 ||
\*                     bounds.col2 < q.col1 || bounds.col1 > q.col2)
intersects(bounds, q) ==
    ~(bounds.row2 < q.row1 \/ bounds.row1 > q.row2
      \/ bounds.col2 < q.col1 \/ bounds.col1 > q.col2)

\* one iteration of the while loop of queryRegion; s = [queue, result]
QueryVisit(nodes, q, s) ==
    IF Len(s.queue) = 0 THEN s
    ELSE LET idx == Head(s.queue)
             rest == Tail(s.queue)
             node == NodeAt(nodes, idx)
         IN  IF ~intersects(node.bounds, q) THEN [s EXCEPT !.queue = rest]
             ELSE IF isLeaf(node)
             THEN [s EXCEPT !.queue = rest, !.result = Append(@, node)]
             ELSE [s EXCEPT !.queue = rest \o ChildrenToVisit(node)]

\* n iterations of the while loop, run as two halves
RECURSIVE QueryRun(_, _, _, _)
QueryRun(nodes, q, s, n) ==
    IF n <= 1 THEN QueryVisit(nodes, q, s)
    ELSE LET half == QueryRun(nodes, q, s, n \div 2)
         IN  Then(half, QueryRun(nodes, q, half, n - n \div 2))

\* while (!queue.empty()): the iterations are run a batch at a time until the
\* queue is empty
RECURSIVE QueryScan(_, _, _)
QueryScan(nodes, q, s) ==
    IF Len(s.queue) = 0 THEN s
    ELSE LET batch == QueryRun(nodes, q, s, Len(nodes))
         IN  Then(batch, QueryScan(nodes, q, batch))

\* RegionTree::queryRegion: the matching nodes, in the order of the walk
queryRegion(t, q) ==
    IF t.rootIndex < 0 THEN <<>>
    ELSE QueryScan(t.nodes, q, [queue |-> <<t.rootIndex>>, result |-> <<>>]).result

\* std::sort(regions, a.anomalyScore > b.anomalyScore), as an insertion sort
\* that keeps the order of regions of equal score
RECURSIVE InsertByScore(_, _)
InsertByScore(sorted, ar) ==
    IF Len(sorted) = 0 THEN <<ar>>
    ELSE IF RealLess(Head(sorted).anomalyScore, ar.anomalyScore)
    THEN <<ar>> \o sorted
    ELSE <<Head(sorted)>> \o InsertByScore(Tail(sorted), ar)

RECURSIVE SortByScore(_, _)
SortByScore(regions, sorted) ==
    IF Len(regions) = 0 THEN sorted
    ELSE SortByScore(Tail(regions), InsertByScore(sorted, Head(regions)))

\* for (node : matchingNodes) { nodesVisited++; if (node->isAnomaly) ... }
RECURSIVE CollectAnomalous(_, _)
CollectAnomalous(matchingNodes, acc) ==
    IF Len(matchingNodes) = 0 THEN acc
    ELSE LET node == Head(matchingNodes)
         IN  CollectAnomalous(Tail(matchingNodes),
                 IF node.isAnomaly
                 THEN Append(acc, AnomalyRegion(node.bounds, node.anomalyScore, node.id))
                 ELSE acc)

\* QueryEngine::queryRectangle
queryRectangle(e, t, q) ==
    IF e.regionTree = "null" THEN QueryResultNew ELSE
    LET matchingNodes == queryRegion(t, q)
    IN  [regions |-> SortByScore(CollectAnomalous(matchingNodes, <<>>), <<>>),
         nodesVisited |-> Len(matchingNodes), nodesPruned |-> 0]

-----------------------------------------------------------------------------
(* UnionFind *)

\* UnionFind(n): elements are 0..n-1
UnionFind(n) ==
    [parent |-> Table([i \in 0..(n - 1) |-> i]),
     rank |-> Table([i \in 0..(n - 1) |-> 0]),
     size |-> Table([i \in 0..(n - 1) |-> 1]),
     numComponents |-> n]

\* find with path compression: the structure afterwards and the root
RECURSIVE find(_, _)
find(uf, x) ==
    IF uf.parent[x] # x
    THEN LET r == find(uf, uf.parent[x])
         IN  [uf |-> [r.uf EXCEPT !.parent[x] = r.root], root |-> r.root]
    ELSE [uf |-> uf, root |-> x]

\* a unite that merges nothing
uniteNothing(uf, x, y) == [uf |-> uf, ret |-> FALSE]

\* a unite that attaches the root of y under the root of x whatever the ranks
uniteIgnoringRank(uf, x, y) ==
    LET fx == find(uf, x)
        fy == find(fx.uf, y)
        u == fy.uf
        rootX == fx.root
        rootY == fy.root
    IN  IF rootX = rootY THEN [uf |-> u, ret |-> FALSE]
        ELSE [uf |-> [u EXCEPT !.parent[rootY] = rootX,
                               !.size[rootX] = @ + u.size[rootY],
                               !.rank[rootX] = IF u.rank[rootX] = u.rank[rootY]
                                               THEN @ + 1 ELSE @,
                               !.numComponents = @ - 1],
              ret |-> TRUE]

\* unite: the structure afterwards and the returned flag
unite(uf, x, y) ==
    LET fx == find(uf, x)
        fy == find(fx.uf, y)
        u == fy.uf
        rootX == fx.root
        rootY == fy.root
    IN  IF rootX = rootY THEN [uf |-> u, ret |-> FALSE]
        ELSE IF u.rank[rootX] < u.rank[rootY]
        THEN [uf |-> [u EXCEPT !.parent[rootX] = rootY,
                               !.size[rootY] = @ + u.size[rootX],
                               !.numComponents = @ - 1],
              ret |-> TRUE]
        ELSE IF u.rank[rootX] > u.rank[rootY]
        THEN [uf |-> [u EXCEPT !.parent[rootY] = rootX,
                               !.size[rootX] = @ + u.size[rootY],
                               !.numComponents = @ - 1],
              ret |-> TRUE]
        ELSE [uf |-> [u EXCEPT !.parent[rootY] = rootX,
                               !.size[rootX] = @ + u.size[rootY],
                               !.rank[rootX] = @ + 1,
                               !.numComponents = @ - 1],
              ret |-> TRUE]

setSize(uf, x, s) ==
    LET f == find(uf, x) IN [f.uf EXCEPT !.size[f.root] = s]

\* elements are connected if they have the same parent
connectedByParent(uf, x, y) == [uf |-> uf, ret |-> uf.parent[x] = uf.parent[y]]

\* connected: the structure afterwards and the returned flag
connected(uf, x, y) ==
    LET fx == find(uf, x)
        fy == find(fx.uf, y)
    IN  [uf |-> fy.uf, ret |-> fx.root = fy.root]

\* the size stored at the element itself
getSizeOfElement(uf, x) == [uf |-> uf, ret |-> uf.size[x]]

\* getSize: the structure afterwards and the returned size
getSize(uf, x) ==
    LET f == find(uf, x) IN [uf |-> f.uf, ret |-> f.uf.size[f.root]]

getNumComponents(uf) == uf.numComponents

-----------------------------------------------------------------------------
(* QueryEngine: connected components *)

\* areAdjacent with >= in place of ==: sides that touch or pass one another
areAdjacentOrOverlapping(a, b) ==
    LET xOverlap == a.col1 <= b.col2 /\ b.col1 <= a.col2
        yOverlap == a.row1 <= b.row2 /\ b.row1 <= a.row2
    IN  IF yOverlap /\ (a.col2 + 1 >= b.col1 /\ b.col2 + 1 >= a.col1) THEN TRUE
        ELSE IF xOverlap /\ (a.row2 + 1 >= b.row1 /\ b.row2 + 1 >= a.row1) THEN TRUE
        ELSE FALSE

\* adjacency that also holds for regions meeting in one corner point
areAdjacentAnyTouch(a, b) ==
    /\ a.col1 <= b.col2 + 1 /\ b.col1 <= a.col2 + 1
    /\ a.row1 <= b.row2 + 1 /\ b.row1 <= a.row2 + 1

areAdjacent(a, b) ==
    LET xOverlap == a.col1 <= b.col2 /\ b.col1 <= a.col2
        yOverlap == a.row1 <= b.row2 /\ b.row1 <= a.row2
    IN  IF yOverlap /\ (a.col2 + 1 = b.col1 \/ b.col2 + 1 = a.col1) THEN TRUE
        ELSE IF xOverlap /\ (a.row2 + 1 = b.row1 \/ b.row2 + 1 = a.row1) THEN TRUE
        ELSE FALSE

mergeBounds(a, b) ==
    Region(Min(a.row1, b.row1), Min(a.col1, b.col1),
           Max(a.row2, b.row2), Max(a.col2, b.col2))

\* the leaves with isAnomaly, in node order; position p is the element p-1
AnomalousNodes(t) == SelectSeq(getLeaves(t), LAMBDA n : n.isAnomaly)

ConnectedComponentNew ==
    [id |-> -1, nodeIndices |-> <<>>, boundingBox |-> Region(0, 0, 0, 0),
     totalArea |-> 0, maxScore |-> RealZero, avgScore |-> RealZero]

\* for (i = 0; i < n; i++) uf.setSize(i, area)
RECURSIVE SetSizes(_, _, _)
SetSizes(uf, an, i) ==
    IF i >= Len(an) THEN uf
    ELSE LET next == setSize(uf, i, area(an[i + 1].bounds))
         IN  Then(next, SetSizes(next, an, i + 1))

\* for (j = i + 1; j < n; j++) if (areAdjacent) uf.unite(i, j)
RECURSIVE UniteRow(_, _, _, _)
UniteRow(uf, an, i, j) ==
    IF j >= Len(an) THEN uf
    ELSE IF areAdjacent(an[i + 1].bounds, an[j + 1].bounds)
    THEN LET u == unite(uf, i, j)
             \* if (uf.unite(i, j)) { int root = uf.find(i); }
             next == IF u.ret THEN find(u.uf, i).uf ELSE u.uf
         IN  Then(next, UniteRow(next, an, i, j + 1))
    ELSE UniteRow(uf, an, i, j + 1)

\* for (i = 0; i < n; i++) over the rows of pairs
RECURSIVE UnitePairs(_, _, _)
UnitePairs(uf, an, i) ==
    IF i >= Len(an) THEN uf
    ELSE LET next == UniteRow(uf, an, i, i + 1)
         IN  Then(next, UnitePairs(next, an, i + 1))

\* rootToNodes[root].push_back(i) for i = 0..n-1; acc = [uf, map]
RECURSIVE GroupByRoot(_, _, _)
GroupByRoot(acc, n, i) ==
    IF i >= n THEN acc
    ELSE LET f == find(acc.uf, i)
             next == [uf |-> f.uf,
                      map |-> [acc.map EXCEPT ![f.root] = Append(@, i)]]
         IN  Then(next, GroupByRoot(next, n, i + 1))

\* the body of the loops that fill one component from one member node
AddMember(comp, node) ==
    [comp EXCEPT !.nodeIndices = Append(@, node.id),
                 !.totalArea = @ + area(node.bounds),
                 !.maxScore = IF RealLess(@, node.anomalyScore)
                              THEN node.anomalyScore ELSE @,
                 !.boundingBox = mergeBounds(@, node.bounds)]

RECURSIVE FillComponent(_, _, _, _, _)
FillComponent(comp, scoreSum, an, nodeIndices, p) ==
    IF p > Len(nodeIndices)
    THEN [comp EXCEPT !.avgScore = RealDivInt(scoreSum, Len(nodeIndices))]
    ELSE LET node == an[nodeIndices[p] + 1]
             next == AddMember(comp, node)
             sum == RealAdd(scoreSum, node.anomalyScore)
         IN  Then(<<next, sum>>, FillComponent(next, sum, an, nodeIndices, p + 1))

\* a sort that leaves the components in the order they were built
InsertLast(sorted, c) == Append(sorted, c)

\* std::sort(components, a.totalArea > b.totalArea), as an insertion sort that
\* keeps the order of components of equal area
RECURSIVE InsertByArea(_, _)
InsertByArea(sorted, c) ==
    IF Len(sorted) = 0 THEN <<c>>
    ELSE IF sorted[Len(sorted)].totalArea >= c.totalArea THEN Append(sorted, c)
    ELSE Append(InsertByArea(SubSeq(sorted, 1, Len(sorted) - 1), c),
                sorted[Len(sorted)])

RECURSIVE SortByArea(_, _, _)
SortByArea(comps, sorted, p) ==
    IF p > Len(comps) THEN sorted
    ELSE LET next == InsertByArea(sorted, comps[p])
         IN  Then(next, SortByArea(comps, next, p + 1))

\* the loop over rootToNodes, taken in ascending order of the root
RECURSIVE BuildComponents(_, _, _, _, _)
BuildComponents(map, an, root, componentId, comps) ==
    IF root >= Len(an) THEN comps
    ELSE IF Len(map[root]) = 0
    THEN BuildComponents(map, an, root + 1, componentId, comps)
    ELSE LET first == an[map[root][1] + 1]
             comp == FillComponent(
                        [ConnectedComponentNew EXCEPT !.id = componentId,
                                                      !.boundingBox = first.bounds],
                        RealZero, an, map[root], 1)
             next == Append(comps, comp)
         IN  Then(next, BuildComponents(map, an, root + 1, componentId + 1, next))

findConnectedComponents(e, t) ==
    IF e.regionTree = "null" THEN <<>> ELSE
    LET an == AnomalousNodes(t)
        n == Len(an)
    IN  IF n = 0 THEN <<>>
        ELSE LET uf == UnitePairs(SetSizes(UnionFind(n), an, 0), an, 0)
                 g == GroupByRoot([uf |-> uf,
                                   map |-> Table([r \in 0..(n - 1) |-> <<>>])], n, 0)
             IN  SortByArea(BuildComponents(g.map, an, 0, 0, <<>>), <<>>, 1)

\* components.empty() ? ConnectedComponent() : components[0]
findLargestConnectedRegion(e, t) ==
    LET components == findConnectedComponents(e, t)
    IN  IF Len(components) = 0 THEN ConnectedComponentNew ELSE components[1]

\* for (j = i + 1; j < n; j++) if (areAdjacent) { adj[i].push_back(j);
\* adj[j].push_back(i); }
RECURSIVE AdjacencyRow(_, _, _, _)
AdjacencyRow(adj, an, i, j) ==
    IF j >= Len(an) THEN adj
    ELSE IF areAdjacent(an[i + 1].bounds, an[j + 1].bounds)
    THEN LET next == [adj EXCEPT ![i] = Append(@, j), ![j] = Append(@, i)]
         IN  Then(next, AdjacencyRow(next, an, i, j + 1))
    ELSE AdjacencyRow(adj, an, i, j + 1)

\* for (i = 0; i < n; i++) over the rows of pairs
RECURSIVE AdjacencyList(_, _, _)
AdjacencyList(adj, an, i) ==
    IF i >= Len(an) THEN adj
    ELSE LET next == AdjacencyRow(adj, an, i, i + 1)
         IN  Then(next, AdjacencyList(next, an, i + 1))

\* a visit that pushes no neighbour
PushNoNeighbours(stack, nbrs, visited, p) == stack

\* for (int v : adj[u]) if (!visited[v]) stack.push(v); the stack top is the end
RECURSIVE PushNeighbours(_, _, _, _)
PushNeighbours(stack, nbrs, visited, p) ==
    IF p > Len(nbrs) THEN stack
    ELSE PushNeighbours(IF visited[nbrs[p]] THEN stack ELSE Append(stack, nbrs[p]),
                        nbrs, visited, p + 1)

\* one iteration of the while (!stack.empty()) loop;
\* s = [stack, comp, scoreSum, visited, first]
DfsVisit(adj, an, s) ==
    IF Len(s.stack) = 0 THEN s
    ELSE LET u == s.stack[Len(s.stack)]
             popped == SubSeq(s.stack, 1, Len(s.stack) - 1)
         IN  IF s.visited[u] THEN [s EXCEPT !.stack = popped]
             ELSE LET node == an[u + 1]
                      visited == [s.visited EXCEPT ![u] = TRUE]
                      c0 == IF s.first
                            THEN [s.comp EXCEPT !.boundingBox = node.bounds]
                            ELSE s.comp
                  IN  [stack |-> PushNeighbours(popped, adj[u], visited, 1),
                       comp |-> AddMember(c0, node),
                       scoreSum |-> RealAdd(s.scoreSum, node.anomalyScore),
                       visited |-> visited, first |-> FALSE]

\* n iterations of the while loop, run as two halves
RECURSIVE DfsRun(_, _, _, _)
DfsRun(adj, an, s, n) ==
    IF n <= 1 THEN DfsVisit(adj, an, s)
    ELSE LET half == DfsRun(adj, an, s, n \div 2)
         IN  Then(half, DfsRun(adj, an, half, n - n \div 2))

\* while (!stack.empty()): the iterations are run a batch at a time until the
\* stack is empty
RECURSIVE DfsLoop(_, _, _)
DfsLoop(adj, an, s) ==
    IF Len(s.stack) = 0 THEN s
    ELSE LET batch == DfsRun(adj, an, s, Len(an))
         IN  Then(batch, DfsLoop(adj, an, batch))

\* for (start = 0; start < n; start++)
RECURSIVE DfsComponents(_, _, _, _, _, _)
DfsComponents(adj, an, start, visited, componentId, comps) ==
    IF start >= Len(an) THEN comps
    ELSE IF visited[start]
    THEN DfsComponents(adj, an, start + 1, visited, componentId, comps)
    ELSE LET acc == DfsLoop(adj, an,
                        [stack |-> <<start>>,
                         comp |-> [ConnectedComponentNew EXCEPT !.id = componentId],
                         scoreSum |-> RealZero, visited |-> visited, first |-> TRUE])
             comp == [acc.comp EXCEPT !.avgScore =
                          RealDivInt(acc.scoreSum, Len(acc.comp.nodeIndices))]
             next == Append(comps, comp)
         IN  Then(next, DfsComponents(adj, an, start + 1, acc.visited,
                                      componentId + 1, next))

findConnectedComponentsDFS(e, t) ==
    IF e.regionTree = "null" THEN <<>> ELSE
    LET an == AnomalousNodes(t)
        n == Len(an)
    IN  IF n = 0 THEN <<>>
        ELSE LET adj == AdjacencyList(Table([i \in 0..(n - 1) |-> <<>>]), an, 0)
             IN  SortByArea(DfsComponents(adj, an, 0, Table([i \in 0..(n - 1) |-> FALSE]),
                                          0, <<>>), <<>>, 1)

-----------------------------------------------------------------------------
(* The rasters explored *)

\* the sequences of n pixel values whose sum is at most budget
RECURSIVE PixelRows(_, _)
PixelRows(n, budget) ==
    IF n = 0 THEN {<<>>}
    ELSE UNION {{<<v>> \o s : s \in PixelRows(n - 1, budget - v)} : v \in 0..budget}

\* the flat sequence of h * w pixels as a Matrix of h rows
Matrix(flat, h, w) == [r \in 1..h |-> [c \in 1..w |-> flat[(r - 1) * w + c]]]

FreeImages ==
    UNION {{Matrix(f, h, w) : f \in PixelRows(h * w, MaxSum)} :
           h \in 1..MaxH, w \in 1..MaxW}

BlankImages ==
    {[r \in 1..n |-> [c \in 1..n |-> 0]] : n \in 1..MaxBlankDim}

\* every pixel holds the same non-zero value
ConstantImages ==
    {[r \in 1..h |-> [c \in 1..w |-> v]] :
        h \in 1..MaxH, w \in 1..MaxW, v \in 1..MaxSum}

\* no rows, and one row without cells
EmptyImages == {<<>>, <<<<>>>>}

Images == FreeImages \cup BlankImages \cup ConstantImages \cup EmptyImages

\* the values of k passed to the top-K queries
TopKs == (1..MaxK) \cup {LargeK}

\* anomaly thresholds, in standard deviations: 1.0 and the default 2.0
Thresholds == {Rat(1, 1), Rat(2, 1)}

-----------------------------------------------------------------------------
(* The pipeline of main(): build the index, build the tree, score it, query *)

\* the answer of the last query: op names the query, k and rect are its
\* arguments; query, components, matching, sum, sumSquares, mean and stats
\* hold what it returned
NoResult ==
    [op |-> "none", k |-> 0, rect |-> Region(0, 0, 0, 0),
     query |-> QueryResultNew, components |-> <<>>, matching |-> <<>>,
     largest |-> ConnectedComponentNew,
     heap |-> <<>>, next |-> 0, toVisit |-> <<>>, emptyTopReads |-> 0,
     sum |-> 0, sumSquares |-> 0, mean |-> RatZero, stats |-> RegionStatsZero]

\* no UnionFind under test
NoDsu ==
    [n |-> 0, uf |-> UnionFind(0), next |-> 0, phase |-> "none", sets |-> {},
     last |-> [op |-> "none", x |-> 0, y |-> 0, ret |-> 0, sets |-> {}, count |-> 0]]

\* the record of one application of Region::isAdjacentTo
NoProbe ==
    [applied |-> FALSE, a |-> Region(0, 0, 0, 0), b |-> Region(0, 0, 0, 0),
     ab |-> FALSE, ba |-> FALSE, aa |-> FALSE,
     compared |-> FALSE, engineAb |-> FALSE]

Init ==
    /\ image = <<>>
    /\ ps = PrefixSumNew
    /\ tree = RegionTreeNew
    /\ det = AnomalyDetector(Rat(2, 1))
    /\ engine = QueryEngineNew
    /\ result = NoResult
    /\ pc = "start"
    /\ probe = NoProbe
    /\ dsu = NoDsu
    /\ kept = NoResult

\* prefixSum.build(image)
Build ==
    /\ pc = "start"
    /\ \E img \in Images :
          /\ image' = img
          /\ ps' = build(ps, img)
    /\ pc' = "indexed"
    /\ UNCHANGED <<tree, det, engine, result, probe, dsu, kept>>

\* regionTree.build(&prefixSum, minSize).  A child index stored through an
\* invalidated reference is undefined behaviour: the store is lost, or the
\* process dies.
TreeBuild ==
    /\ pc = "indexed"
    /\ result.op = "none"
    /\ \E minSize \in 1..MaxMinSize :
          /\ estimatedNodes(ps, minSize) <= MaxReserve
          /\ LET t == treeBuild(tree, ps, minSize)
             IN  \/ /\ tree' = t
                    /\ pc' = "tree"
                 \/ /\ t.staleWrites > 0
                    /\ tree' = t
                    /\ pc' = "crashed"
    /\ UNCHANGED <<image, ps, det, engine, result, probe, dsu, kept>>

\* AnomalyDetector detector(threshold); detector.initialize(&prefixSum)
DetectorInitialize ==
    /\ pc = "tree"
    /\ \E threshold \in Thresholds :
          det' = initialize(AnomalyDetector(threshold), ps)
    /\ pc' = "detector"
    /\ UNCHANGED <<image, ps, tree, engine, result, probe, dsu, kept>>

\* detector.detectInTree(regionTree)
DetectInTree ==
    /\ pc = "detector"
    /\ LET r == detectInTree(det, ps, tree)
       IN  /\ det' = r.det
           /\ tree' = r.tree
    /\ pc' = "scored"
    /\ UNCHANGED <<image, ps, engine, result, probe, dsu, kept>>

\* detector.detectInTree(regionTree) on the detector as constructed, without
\* detector.initialize(&prefixSum)
DetectUninitialized ==
    /\ pc = "tree"
    /\ LET r == detectInTree(det, ps, tree)
       IN  /\ det' = r.det
           /\ tree' = r.tree
    /\ pc' = "unscored"
    /\ UNCHANGED <<image, ps, engine, result, probe, dsu, kept>>

\* queryEngine.initialize(&regionTree, &prefixSum, &detector)
QueryEngineInitialize ==
    /\ pc = "scored"
    /\ engine' = engineInitialize(engine)
    /\ pc' = "ready"
    /\ UNCHANGED <<image, ps, tree, det, result, probe, dsu, kept>>

\* queryEngine.topKAnomalies(k, true)
TopKAnomalies ==
    /\ pc = "ready"
    /\ result.op = "none"
    /\ \E k \in TopKs :
          result' = [NoResult EXCEPT !.op = "topKAnomalies", !.k = k,
                                     !.query = topKAnomalies(engine, tree, k, TRUE)]
    /\ UNCHANGED <<image, ps, tree, det, engine, pc, probe, dsu, kept>>

\* queryEngine.topKWithPruning(k)
TopKWithPruning ==
    /\ pc = "ready"
    /\ result.op = "none"
    /\ \E k \in TopKs :
          result' = [NoResult EXCEPT !.op = "topKWithPruning", !.k = k,
                                     !.query = topKWithPruning(engine, tree, k)]
    /\ UNCHANGED <<image, ps, tree, det, engine, pc, probe, dsu, kept>>

\* a findConnectedComponents that clears the flag of every leaf it reports
FindConnectedComponentsClearing ==
    /\ pc = "ready"
    /\ result.op = "none"
    /\ result' = [NoResult EXCEPT !.op = "findConnectedComponents",
                                  !.components = findConnectedComponents(engine, tree)]
    /\ tree' = [tree EXCEPT !.nodes =
                    [i \in 1..Len(tree.nodes) |->
                        IF isLeaf(tree.nodes[i])
                        THEN [tree.nodes[i] EXCEPT !.isAnomaly = FALSE]
                        ELSE tree.nodes[i]]]
    /\ UNCHANGED <<image, ps, det, engine, pc, probe, dsu, kept>>

\* queryEngine.findConnectedComponents()
FindConnectedComponents ==
    /\ pc = "ready"
    /\ result.op = "none"
    /\ result' = [NoResult EXCEPT !.op = "findConnectedComponents",
                                  !.components = findConnectedComponents(engine, tree)]
    /\ UNCHANGED <<image, ps, tree, det, engine, pc, probe, dsu, kept>>

\* queryEngine.findConnectedComponentsDFS()
FindConnectedComponentsDFS ==
    /\ pc = "ready"
    /\ result.op = "none"
    /\ result' = [NoResult EXCEPT !.op = "findConnectedComponentsDFS",
                                  !.components = findConnectedComponentsDFS(engine, tree)]
    /\ UNCHANGED <<image, ps, tree, det, engine, pc, probe, dsu, kept>>

\* the caller is done with the result of a query and may issue the next one
ReleaseResult ==
    /\ pc \in {"indexed", "ready"}
    /\ result.op # "none"
    /\ result' = NoResult
    /\ UNCHANGED <<image, ps, tree, det, engine, pc, probe, dsu, kept>>

Next ==
    \/ Build
    \/ TreeBuild
    \/ DetectorInitialize
    \/ DetectInTree
    \/ DetectUninitialized
    \/ QueryEngineInitialize
    \/ TopKAnomalies
    \/ TopKWithPruning
    \/ FindConnectedComponents
    \/ FindConnectedComponentsDFS
    \/ ReleaseResult

Spec == Init /\ [][Next]_vars

-----------------------------------------------------------------------------
(* Region::isAdjacentTo on its own: every pair of valid regions *)

\* the regions with row1 <= row2 and col1 <= col2 inside 0..MaxCoord
ValidRegions ==
    UNION {{Region(r1, c1, r2, c2) : r2 \in r1..MaxCoord, c2 \in c1..MaxCoord} :
           r1 \in 0..MaxCoord, c1 \in 0..MaxCoord}

InitRegions ==
    /\ image = <<>>
    /\ ps = PrefixSumNew
    /\ tree = RegionTreeNew
    /\ det = AnomalyDetector(Rat(2, 1))
    /\ engine = QueryEngineNew
    /\ result = NoResult
    /\ pc = "start"
    /\ \E a \in ValidRegions, b \in ValidRegions :
          probe = [NoProbe EXCEPT !.a = a, !.b = b]
    /\ dsu = NoDsu
    /\ kept = NoResult

\* a.isAdjacentTo(b), b.isAdjacentTo(a) and a.isAdjacentTo(a)
IsAdjacentTo ==
    /\ ~probe.applied
    /\ probe' = [probe EXCEPT !.applied = TRUE,
                              !.ab = isAdjacentTo(probe.a, probe.b),
                              !.ba = isAdjacentTo(probe.b, probe.a),
                              !.aa = isAdjacentTo(probe.a, probe.a)]
    /\ UNCHANGED <<image, ps, tree, det, engine, result, pc, dsu, kept>>

\* QueryEngine::areAdjacent(a, b) on the same two regions
AreAdjacent ==
    /\ ~probe.compared
    /\ probe' = [probe EXCEPT !.compared = TRUE,
                              !.engineAb = areAdjacent(probe.a, probe.b)]
    /\ UNCHANGED <<image, ps, tree, det, engine, result, pc, dsu, kept>>

NextRegions ==
    \/ IsAdjacentTo
    \/ AreAdjacent

SpecRegions == InitRegions /\ [][NextRegions]_vars

-----------------------------------------------------------------------------
(* The pipeline of main() with the default minimum region size, on rasters  *)
(* of 4 x 4 blocks of MIN_REGION_SIZE x MIN_REGION_SIZE pixels              *)

\* Config::MIN_REGION_SIZE
MIN_REGION_SIZE == 16

\* the largest Pixel
MAX_PIXEL == 255

\* the positions <<block row, block column>> of the 4 x 4 blocks
BlockGrid == (0..3) \X (0..3)

\* the raster that is MAX_PIXEL on the blocks of the set blocks and 0 elsewhere
BlockImage(blocks) ==
    [r \in 1..(4 * MIN_REGION_SIZE) |->
        [c \in 1..(4 * MIN_REGION_SIZE) |->
            IF <<(r - 1) \div MIN_REGION_SIZE, (c - 1) \div MIN_REGION_SIZE>> \in blocks
            THEN MAX_PIXEL ELSE 0]]

\* the pixels of the block at position b
BlockRegion(b) ==
    Region(b[1] * MIN_REGION_SIZE, b[2] * MIN_REGION_SIZE,
           (b[1] + 1) * MIN_REGION_SIZE - 1, (b[2] + 1) * MIN_REGION_SIZE - 1)

CornerBlocks == {<<0, 0>>, <<0, 3>>, <<3, 0>>, <<3, 3>>}

\* two blocks with a whole edge in common
BlocksShareEdge(a, b) == Abs(a[1] - b[1]) + Abs(a[2] - b[2]) = 1

\* two blocks that meet in one corner point only
BlocksTouchCorner(a, b) == Abs(a[1] - b[1]) = 1 /\ Abs(a[2] - b[2]) = 1

\* one bright corner block, or two bright blocks that share an edge or touch
\* at a corner
BlockSets ==
    {{b} : b \in CornerBlocks}
    \cup {{x[1], x[2]} : x \in {y \in BlockGrid \X BlockGrid :
                                   BlocksShareEdge(y[1], y[2])
                                   \/ BlocksTouchCorner(y[1], y[2])}}

\* prefixSum.build(image) on a raster of blocks
BuildBlocks ==
    /\ pc = "start"
    /\ \E blocks \in BlockSets :
          /\ image' = BlockImage(blocks)
          /\ ps' = build(ps, BlockImage(blocks))
    /\ pc' = "indexed"
    /\ UNCHANGED <<tree, det, engine, result, probe, dsu, kept>>

\* regionTree.build(&prefixSum, Config::MIN_REGION_SIZE)
TreeBuildDefault ==
    /\ pc = "indexed"
    /\ result.op = "none"
    /\ LET t == treeBuild(tree, ps, MIN_REGION_SIZE)
       IN  \/ /\ tree' = t
              /\ pc' = "tree"
           \/ /\ t.staleWrites > 0
              /\ tree' = t
              /\ pc' = "crashed"
    /\ UNCHANGED <<image, ps, det, engine, result, probe, dsu, kept>>

NextBlocks ==
    \/ BuildBlocks
    \/ TreeBuildDefault
    \/ DetectorInitialize
    \/ DetectInTree
    \/ QueryEngineInitialize
    \/ TopKAnomalies
    \/ FindConnectedComponents
    \/ FindConnectedComponentsDFS
    \/ ReleaseResult

SpecBlocks == Init /\ [][NextBlocks]_vars

-----------------------------------------------------------------------------
(* The range queries of the index and the rectangle queries of the tree, on *)
(* gradient, blank and empty rasters                                        *)

\* ImageLoader::generateGradientImage(size)
generateGradientImage(size) ==
    [r \in 1..size |-> [c \in 1..size |->
        (((r - 1) + (c - 1)) * MAX_PIXEL) \div (2 * size - 2)]]

GradientImages == {generateGradientImage(size) : size \in 2..MaxGradientSize}

QueryImages == GradientImages \cup BlankImages \cup EmptyImages

\* the coordinates tried along an axis of n cells: one before the raster,
\* its first, middle and last cell, and one after it
QueryCoords(n) == {-1, 0, n \div 2, n - 1, n}

\* the rectangles tried on the raster img, inverted ones included
QueryRects(img) ==
    LET h == Len(img)
        w == IF h = 0 THEN 0 ELSE Len(img[1])
    IN  {Region(r1, c1, r2, c2) : r1 \in QueryCoords(h), r2 \in QueryCoords(h),
                                  c1 \in QueryCoords(w), c2 \in QueryCoords(w)}

\* prefixSum.build(image) on a gradient, blank or empty raster
BuildQuery ==
    /\ pc = "start"
    /\ \E img \in QueryImages :
          /\ image' = img
          /\ ps' = build(ps, img)
    /\ pc' = "indexed"
    /\ UNCHANGED <<tree, det, engine, result, probe, dsu, kept>>

\* prefixSum.querySum(region), querySumSquares(region), queryMean(region)
\* and queryStats(region)
QueryStats ==
    /\ pc = "indexed"
    /\ result.op = "none"
    /\ \E region \in QueryRects(image) :
          result' = [NoResult EXCEPT !.op = "queryStats", !.rect = region,
                                     !.sum = querySum(ps, region),
                                     !.sumSquares = querySumSquares(ps, region),
                                     !.mean = queryMean(ps, region),
                                     !.stats = queryStats(ps, region)]
    /\ UNCHANGED <<image, ps, tree, det, engine, pc, probe, dsu, kept>>

\* regionTree.queryRegion(rect) and queryEngine.queryRectangle(rect)
QueryRectangle ==
    /\ pc = "ready"
    /\ result.op = "none"
    /\ \E rect \in QueryRects(image) :
          result' = [NoResult EXCEPT !.op = "queryRectangle", !.rect = rect,
                                     !.matching = queryRegion(tree, rect),
                                     !.query = queryRectangle(engine, tree, rect)]
    /\ UNCHANGED <<image, ps, tree, det, engine, pc, probe, dsu, kept>>

NextQueries ==
    \/ BuildQuery
    \/ QueryStats
    \/ TreeBuild
    \/ DetectorInitialize
    \/ DetectInTree
    \/ QueryEngineInitialize
    \/ QueryRectangle
    \/ ReleaseResult

SpecQueries == Init /\ [][NextQueries]_vars

-----------------------------------------------------------------------------
(* The query engine on 3 x 3 rasters with a few bright cells *)

\* loadFromBuffer of the 3 x 3 buffer that is MAX_PIXEL on cells, 0 elsewhere
MaskImage(cells) ==
    [r \in 1..3 |-> [c \in 1..3 |-> IF <<r, c>> \in cells THEN MAX_PIXEL ELSE 0]]

\* the rasters with at most MaxBright bright cells <<row, column>>
MaskImages ==
    {MaskImage(cells) :
        cells \in {s \in SUBSET ((1..3) \X (1..3)) : Cardinality(s) <= MaxBright}}

\* prefixSum.build(image) on a raster with a few bright cells
BuildMask ==
    /\ pc = "start"
    /\ \E img \in MaskImages :
          /\ image' = img
          /\ ps' = build(ps, img)
    /\ pc' = "indexed"
    /\ UNCHANGED <<tree, det, engine, result, probe, dsu, kept>>

\* queryEngine.findLargestConnectedRegion()
FindLargestConnectedRegion ==
    /\ pc = "ready"
    /\ result.op = "none"
    /\ result' = [NoResult EXCEPT !.op = "findLargestConnectedRegion",
                                  !.components = findConnectedComponents(engine, tree),
                                  !.largest = findLargestConnectedRegion(engine, tree)]
    /\ UNCHANGED <<image, ps, tree, det, engine, pc, probe, dsu, kept>>

NextEngine ==
    \/ BuildMask
    \/ TreeBuild
    \/ DetectorInitialize
    \/ DetectInTree
    \/ QueryEngineInitialize
    \/ FindConnectedComponents
    \/ FindConnectedComponentsDFS
    \/ FindLargestConnectedRegion
    \/ ReleaseResult

SpecEngine == Init /\ [][NextEngine]_vars

-----------------------------------------------------------------------------
(* Queries asked again: the caller keeps one answer and goes on asking *)

\* the whole raster and its four quadrants
QuadrantRects(index) ==
    LET fullImage == Region(0, 0, index.height - 1, index.width - 1)
    IN  {fullImage} \cup {splitRegion(fullImage)[i] : i \in 1..4}

\* queryEngine.queryRectangle(rect) on the whole raster or one quadrant
QueryQuadrant ==
    /\ pc = "ready"
    /\ result.op = "none"
    /\ \E rect \in QuadrantRects(ps) :
          result' = [NoResult EXCEPT !.op = "queryRectangle", !.rect = rect,
                                     !.matching = queryRegion(tree, rect),
                                     !.query = queryRectangle(engine, tree, rect)]
    /\ UNCHANGED <<image, ps, tree, det, engine, pc, probe, dsu, kept>>

\* the caller puts the answer it holds aside, as main does with result,
\* prunedResult, components and dfsComponents
KeepResult ==
    /\ pc = "ready"
    /\ result.op # "none"
    /\ kept.op = "none"
    /\ kept' = result
    /\ result' = NoResult
    /\ UNCHANGED <<image, ps, tree, det, engine, pc, probe, dsu>>

NextRepeat ==
    \/ BuildQuery
    \/ TreeBuild
    \/ DetectorInitialize
    \/ DetectInTree
    \/ QueryEngineInitialize
    \/ TopKAnomalies
    \/ TopKWithPruning
    \/ FindConnectedComponents
    \/ FindConnectedComponentsDFS
    \/ QueryQuadrant
    \/ KeepResult
    \/ ReleaseResult

SpecRepeat == Init /\ [][NextRepeat]_vars

-----------------------------------------------------------------------------
(* topKAnomalies and topKWithPruning, one iteration of their loops at a time *)

\* prefixSum.build(image) on a gradient or empty raster
BuildGradient ==
    /\ pc = "start"
    /\ \E img \in GradientImages \cup EmptyImages :
          /\ image' = img
          /\ ps' = build(ps, img)
    /\ pc' = "indexed"
    /\ UNCHANGED <<tree, det, engine, result, probe, dsu, kept>>

\* topKAnomalies(k, true) up to its loop over the nodes
ScanStart ==
    /\ pc = "ready"
    /\ result.op = "none"
    /\ engine.regionTree # "null"
    /\ \E k \in {0} \cup TopKs :
          result' = [NoResult EXCEPT !.op = "topKAnomalies scan", !.k = k,
                                     !.next = 1]
    /\ UNCHANGED <<image, ps, tree, det, engine, pc, probe, dsu, kept>>

\* minHeap.top() is read while the heap is empty: size() < k is false and the
\* heap holds nothing
TopOfEmptyHeap == Len(result.heap) = 0 /\ ~(Len(result.heap) < result.k)

\* one iteration of for (const auto& node : nodes) in topKAnomalies.  top()
\* of an empty heap is undefined: the read faults, or it yields some score
\* that the candidate does not exceed, or one that it exceeds, and then the
\* candidate is pushed.
ScanStep ==
    /\ pc = "ready"
    /\ result.op = "topKAnomalies scan"
    /\ result.next <= Len(tree.nodes)
    /\ LET node == tree.nodes[result.next]
           ar == AnomalyRegion(node.bounds, node.anomalyScore, node.id)
       IN  IF isLeaf(node) /\ TopOfEmptyHeap
           THEN \/ /\ pc' = "crashed"
                   /\ result' = [result EXCEPT !.emptyTopReads = @ + 1]
                \/ /\ pc' = pc
                   /\ result' = [result EXCEPT !.emptyTopReads = @ + 1,
                                               !.query.nodesVisited = @ + 1,
                                               !.next = @ + 1]
                \/ /\ pc' = pc
                   /\ result' = [result EXCEPT !.emptyTopReads = @ + 1,
                                               !.query.nodesVisited = @ + 1,
                                               !.heap = <<ar>>,
                                               !.next = @ + 1]
           ELSE LET acc == TopKVisit(tree.nodes, result.next, result.k, TRUE,
                                     [heap |-> result.heap,
                                      visited |-> result.query.nodesVisited])
                IN  /\ pc' = pc
                    /\ result' = [result EXCEPT !.heap = acc.heap,
                                                !.query.nodesVisited = acc.visited,
                                                !.next = @ + 1]
    /\ UNCHANGED <<image, ps, tree, det, engine, probe, dsu, kept>>

\* the heap is emptied into result.regions, which is reversed
ScanEnd ==
    /\ pc = "ready"
    /\ result.op = "topKAnomalies scan"
    /\ result.next > Len(tree.nodes)
    /\ result' = [result EXCEPT !.op = "topKAnomalies",
                                !.query.regions = Reverse(DrainHeap(result.heap, <<>>)),
                                !.heap = <<>>, !.next = 0]
    /\ UNCHANGED <<image, ps, tree, det, engine, pc, probe, dsu, kept>>

\* topKWithPruning(k) up to its loop: toVisit.push(0)
PruneStart ==
    /\ pc = "ready"
    /\ result.op = "none"
    /\ engine.regionTree # "null"
    /\ \E k \in {0} \cup TopKs :
          result' = [NoResult EXCEPT !.op = "topKWithPruning scan", !.k = k,
                                     !.toVisit = <<0>>]
    /\ UNCHANGED <<image, ps, tree, det, engine, pc, probe, dsu, kept>>

\* one iteration of while (!toVisit.empty()) in topKWithPruning.  canPrune
\* reads top() once size() >= k, and the offer of a leaf reads it again.
PruneStep ==
    /\ pc = "ready"
    /\ result.op = "topKWithPruning scan"
    /\ Len(result.toVisit) > 0
    /\ LET idx == Head(result.toVisit)
           s == [toVisit |-> result.toVisit, heap |-> result.heap,
                 visited |-> result.query.nodesVisited,
                 pruned |-> result.query.nodesPruned]
       IN  IF idx >= 0 /\ idx < Len(tree.nodes) /\ TopOfEmptyHeap
           THEN LET node == NodeAt(tree.nodes, idx)
                    ar == AnomalyRegion(node.bounds, node.anomalyScore, node.id)
                    rest == Tail(result.toVisit)
                IN  \/ /\ pc' = "crashed"
                       /\ result' = [result EXCEPT !.emptyTopReads = @ + 1]
                    \/ /\ pc' = pc
                       /\ result' = [result EXCEPT
                             !.emptyTopReads = @ + 1,
                             !.query.nodesVisited = @ + 1,
                             !.toVisit = IF isLeaf(node) THEN rest
                                         ELSE rest \o ChildrenToVisit(node)]
                    \/ /\ pc' = pc
                       /\ isLeaf(node)
                       /\ result' = [result EXCEPT !.emptyTopReads = @ + 1,
                                                   !.query.nodesVisited = @ + 1,
                                                   !.heap = <<ar>>,
                                                   !.toVisit = rest]
                    \/ /\ pc' = pc
                       /\ ~isLeaf(node)
                       /\ result' = [result EXCEPT !.emptyTopReads = @ + 1,
                                                   !.query.nodesVisited = @ + 1,
                                                   !.query.nodesPruned = @ + 1,
                                                   !.toVisit = rest]
           ELSE LET t == PruneVisit(tree.nodes, result.k, s)
                IN  /\ pc' = pc
                    /\ result' = [result EXCEPT !.toVisit = t.toVisit,
                                                !.heap = t.heap,
                                                !.query.nodesVisited = t.visited,
                                                !.query.nodesPruned = t.pruned]
    /\ UNCHANGED <<image, ps, tree, det, engine, probe, dsu, kept>>

\* the heap is emptied into result.regions, which is reversed
PruneEnd ==
    /\ pc = "ready"
    /\ result.op = "topKWithPruning scan"
    /\ Len(result.toVisit) = 0
    /\ result' = [result EXCEPT !.op = "topKWithPruning",
                                !.query.regions = Reverse(DrainHeap(result.heap, <<>>)),
                                !.heap = <<>>]
    /\ UNCHANGED <<image, ps, tree, det, engine, pc, probe, dsu, kept>>

NextScan ==
    \/ BuildGradient
    \/ TreeBuild
    \/ DetectorInitialize
    \/ DetectInTree
    \/ QueryEngineInitialize
    \/ ScanStart
    \/ ScanStep
    \/ ScanEnd
    \/ PruneStart
    \/ PruneStep
    \/ PruneEnd
    \/ ReleaseResult

SpecScan == Init /\ [][NextScan]_vars

-----------------------------------------------------------------------------
(* UnionFind on its own: setSize on every element, then any calls of unite, *)
(* connected and getSize                                                    *)

\* the weight given to element i by setSize; no two sets of elements have
\* the same sum
Weight(i) == 2 ^ i

\* dsu.sets is the partition made by the calls of unite so far, kept beside
\* the structure; dsu.last is the last call, its result, and the partition
\* and getNumComponents() before it
InitUnionFind ==
    /\ image = <<>>
    /\ ps = PrefixSumNew
    /\ tree = RegionTreeNew
    /\ det = AnomalyDetector(Rat(2, 1))
    /\ engine = QueryEngineNew
    /\ result = NoResult
    /\ pc = "start"
    /\ probe = NoProbe
    /\ kept = NoResult
    /\ \E n \in 1..MaxElements :
          dsu = [NoDsu EXCEPT !.n = n, !.uf = UnionFind(n), !.phase = "sizing",
                              !.sets = {{i} : i \in 0..(n - 1)}]

\* the set of the partition sets that holds x
SetOf(sets, x) == CHOOSE s \in sets : x \in s

\* uf.setSize(i, weight), for i = 0, 1, ... in turn
SetSize ==
    /\ dsu.phase = "sizing"
    /\ dsu' = [dsu EXCEPT !.uf = setSize(dsu.uf, dsu.next, Weight(dsu.next)),
                          !.next = @ + 1,
                          !.phase = IF dsu.next + 1 = dsu.n THEN "uniting" ELSE @,
                          !.last = [NoDsu.last EXCEPT !.op = "setSize",
                                                      !.x = dsu.next]]
    /\ UNCHANGED <<image, ps, tree, det, engine, result, pc, probe, kept>>

\* uf.unite(x, y)
Unite ==
    /\ dsu.phase = "uniting"
    /\ \E x \in 0..(dsu.n - 1), y \in 0..(dsu.n - 1) :
          LET u == unite(dsu.uf, x, y)
              sx == SetOf(dsu.sets, x)
              sy == SetOf(dsu.sets, y)
          IN  dsu' = [dsu EXCEPT !.uf = u.uf,
                                 !.sets = (@ \ {sx, sy}) \cup {sx \cup sy},
                                 !.last = [op |-> "unite", x |-> x, y |-> y,
                                           ret |-> u.ret, sets |-> dsu.sets,
                                           count |-> getNumComponents(dsu.uf)]]
    /\ UNCHANGED <<image, ps, tree, det, engine, result, pc, probe, kept>>

\* uf.connected(x, y)
Connected ==
    /\ dsu.phase = "uniting"
    /\ \E x \in 0..(dsu.n - 1), y \in 0..(dsu.n - 1) :
          LET c == connected(dsu.uf, x, y)
          IN  dsu' = [dsu EXCEPT !.uf = c.uf,
                                 !.last = [op |-> "connected", x |-> x, y |-> y,
                                           ret |-> c.ret, sets |-> dsu.sets,
                                           count |-> getNumComponents(dsu.uf)]]
    /\ UNCHANGED <<image, ps, tree, det, engine, result, pc, probe, kept>>

\* uf.getSize(x)
GetSize ==
    /\ dsu.phase = "uniting"
    /\ \E x \in 0..(dsu.n - 1) :
          LET g == getSize(dsu.uf, x)
          IN  dsu' = [dsu EXCEPT !.uf = g.uf,
                                 !.last = [op |-> "getSize", x |-> x, y |-> x,
                                           ret |-> g.ret, sets |-> dsu.sets,
                                           count |-> getNumComponents(dsu.uf)]]
    /\ UNCHANGED <<image, ps, tree, det, engine, result, pc, probe, kept>>

NextUnionFind ==
    \/ SetSize
    \/ Unite
    \/ Connected
    \/ GetSize

SpecUnionFind == InitUnionFind /\ [][NextUnionFind]_vars

-----------------------------------------------------------------------------
(* Brute-force references, computed from the raster alone *)

\* the inner loop of PrefixSum::verify over the columns c..c2 of row r
RECURSIVE bruteRow(_, _, _, _, _)
bruteRow(img, r, c, c2, square) ==
    IF c > c2 THEN 0
    ELSE (IF r >= 0 /\ r < Len(img) /\ c >= 0 /\ c < Len(img[1])
          THEN LET val == img[r + 1][c + 1]
               IN  IF square THEN val * val ELSE val
          ELSE 0)
         + bruteRow(img, r, c + 1, c2, square)

\* the outer loop of PrefixSum::verify over the rows r..r2
RECURSIVE bruteRows(_, _, _, _, _, _)
bruteRows(img, r, r2, c1, c2, square) ==
    IF r > r2 THEN 0
    ELSE bruteRow(img, r, c1, c2, square) + bruteRows(img, r + 1, r2, c1, c2, square)

\* bruteSum / bruteSumSquares of PrefixSum::verify
bruteSum(img, region, square) ==
    bruteRows(img, region.row1, region.row2, region.col1, region.col2, square)

\* for every row r and every column range c1..c2 of the raster, the sum of
\* the cells (or of their squares) of that row in that range, cell by cell
RowSums(img, square) ==
    Table([r \in 0..(Len(img) - 1) |->
        Table([c1 \in 0..(Len(img[1]) - 1) |->
            Table([c2 \in c1..(Len(img[1]) - 1) |->
                bruteRow(img, r, c1, c2, square)])])])

\* the sum over the rows r..r2 of the row sums in the column range c1..c2
RECURSIVE SumOfRows(_, _, _, _, _)
SumOfRows(rows, r, r2, c1, c2) ==
    IF r > r2 THEN 0
    ELSE rows[r][c1][c2] + SumOfRows(rows, r + 1, r2, c1, c2)

-----------------------------------------------------------------------------
(* C1 *)

\* C1: after build(raster) on a non-empty raster, for every region R inside
\* the raster querySum(R) is the sum of the raster cells in R and
\* querySumSquares(R) is the sum of their squares.
PrefixSumMatchesBruteForce ==
    (pc = "indexed" /\ ps.built) =>
        LET sums == RowSums(image, FALSE)
            squares == RowSums(image, TRUE)
        IN  \A r1 \in 0..(ps.height - 1), c1 \in 0..(ps.width - 1) :
                \A r2 \in r1..(ps.height - 1), c2 \in c1..(ps.width - 1) :
                    /\ querySum(ps, Region(r1, c1, r2, c2)) =
                           SumOfRows(sums, r1, r2, c1, c2)
                    /\ querySumSquares(ps, Region(r1, c1, r2, c2)) =
                           SumOfRows(squares, r1, r2, c1, c2)

\* a 3 x 3 raster with a pixel of value 2 off the first row and column has
\* been indexed, and a region that starts past row 0 and column 0 sums it
PrefixSumQueried ==
    /\ pc = "indexed"
    /\ ps.built
    /\ ps.height = 3
    /\ ps.width = 3
    /\ image[2][2] = 2
    /\ querySum(ps, Region(1, 1, 2, 2)) = 2
    /\ querySumSquares(ps, Region(1, 1, 2, 2)) = 4

-----------------------------------------------------------------------------
(* C2 *)

\* the number of leaves whose bounds hold the pixel (row, col)
LeafCover(t, row, col) ==
    Cardinality({i \in 1..Len(t.nodes) :
                    isLeaf(t.nodes[i]) /\ contains(t.nodes[i].bounds, row, col)})

\* C2: after RegionTree.build on a built index, with any minSize >= 1, every
\* pixel of the raster lies in the bounds of exactly one leaf.
LeavesPartitionRoot ==
    (pc = "tree" /\ ps.built) =>
        \A row \in 0..(ps.height - 1), col \in 0..(ps.width - 1) :
            LeafCover(tree, row, col) = 1

-----------------------------------------------------------------------------
(* C3, C4, C5 *)

\* the ids of the nodes for which isLeaf() holds
LeafIds(t) == {t.nodes[i].id : i \in {j \in 1..Len(t.nodes) : isLeaf(t.nodes[j])}}

\* the score sequence s with the score x put in, s being in descending order
RECURSIVE InsertDescending(_, _)
InsertDescending(s, x) ==
    IF Len(s) = 0 THEN <<x>>
    ELSE IF RealLess(Head(s), x) THEN <<x>> \o s
    ELSE <<Head(s)>> \o InsertDescending(Tail(s), x)

\* the scores of the sequence s in descending order
RECURSIVE SortDescending(_)
SortDescending(s) ==
    IF Len(s) = 0 THEN <<>>
    ELSE InsertDescending(SortDescending(Tail(s)), Head(s))

\* the scores of a sequence of nodes or of AnomalyRegions
ScoresOf(s) == [i \in 1..Len(s) |-> s[i].anomalyScore]

\* the first min(k, number of leaves) scores of the descending sort of all
\* leaf scores
TopScores(t, k) ==
    LET all == SortDescending(ScoresOf(getLeaves(t)))
    IN  SubSeq(all, 1, Min(k, Len(all)))

\* C3: the multiset of scores returned by topKAnomalies(K, leafOnly = true)
\* is that of the first min(K, numberOfLeaves) scores of a full descending
\* sort of all leaf scores.
TopKIsTopSelection ==
    result.op = "topKAnomalies" =>
        SortDescending(ScoresOf(result.query.regions)) = TopScores(tree, result.k)

\* C4: the regions returned by topKAnomalies(K) are in non-increasing order
\* of score: no region scores higher than the one before it.
TopKIsDescending ==
    result.op = "topKAnomalies" =>
        \A i \in 1..(Len(result.query.regions) - 1) :
            ~RealLess(result.query.regions[i].anomalyScore,
                      result.query.regions[i + 1].anomalyScore)

\* C5: topKAnomalies(K, leafOnly = true) returns exactly
\* min(K, numberOfLeaves) regions, all of them leaves, with pairwise distinct
\* node ids.
TopKCountAndLeaves ==
    result.op = "topKAnomalies" =>
        LET regions == result.query.regions
        IN  /\ Len(regions) = Min(result.k, Cardinality(LeafIds(tree)))
            /\ \A i \in 1..Len(regions) : regions[i].nodeId \in LeafIds(tree)
            /\ \A i, j \in 1..Len(regions) :
                   i # j => regions[i].nodeId # regions[j].nodeId

\* topKAnomalies(2) has returned two of more than two leaves whose scores are
\* not all equal
TopKTruncated ==
    /\ result.op = "topKAnomalies"
    /\ result.k = 2
    /\ Len(result.query.regions) = 2
    /\ Cardinality(LeafIds(tree)) > 2
    /\ \E i, j \in 1..Len(tree.nodes) :
          /\ isLeaf(tree.nodes[i])
          /\ isLeaf(tree.nodes[j])
          /\ RealLess(tree.nodes[i].anomalyScore, tree.nodes[j].anomalyScore)

-----------------------------------------------------------------------------
(* C6 *)

\* the ids of the leaves in the subtree of the node idx, along the child links
RECURSIVE SubtreeLeaves(_, _)
SubtreeLeaves(t, idx) ==
    LET node == NodeAt(t.nodes, idx)
    IN  IF isLeaf(node) THEN {idx}
        ELSE UNION {SubtreeLeaves(t, node.children[i]) :
                       i \in {j \in 1..4 : node.children[j] >= 0}}

\* the monotonicity assumption: no internal node scores below a leaf of its
\* subtree
Monotone(t) ==
    \A i \in 1..Len(t.nodes) :
        ~isLeaf(t.nodes[i]) =>
            \A l \in SubtreeLeaves(t, t.nodes[i].id) :
                ~RealLess(t.nodes[i].anomalyScore, NodeAt(t.nodes, l).anomalyScore)

\* no two leaves have the same score
LeafScoresDistinct(t) ==
    \A i, j \in 1..Len(t.nodes) :
        (i # j /\ isLeaf(t.nodes[i]) /\ isLeaf(t.nodes[j])) =>
            t.nodes[i].anomalyScore # t.nodes[j].anomalyScore

NodeIdsOf(regions) == {regions[i].nodeId : i \in 1..Len(regions)}

\* C6: on a scored tree that satisfies the monotonicity assumption,
\* topKWithPruning(K) returns the same multiset of scores as
\* topKAnomalies(K, leafOnly = true), and the same set of node ids when the
\* leaf scores are pairwise distinct.
PruningMatchesScan ==
    (result.op = "topKWithPruning" /\ Len(tree.nodes) > 0 /\ Monotone(tree)) =>
        LET scan == topKAnomalies(engine, tree, result.k, TRUE).regions
            pruned == result.query.regions
        IN  /\ SortDescending(ScoresOf(pruned)) = SortDescending(ScoresOf(scan))
            /\ LeafScoresDistinct(tree) => NodeIdsOf(pruned) = NodeIdsOf(scan)

-----------------------------------------------------------------------------
(* C7, C8 *)

\* the family of member-id sets of a sequence of components
PartitionOf(comps) ==
    {{comps[i].nodeIndices[p] : p \in 1..Len(comps[i].nodeIndices)} :
        i \in 1..Len(comps)}

\* C7: findConnectedComponents and findConnectedComponentsDFS produce the
\* same partition of the anomalous leaves, whatever the component ids and the
\* order inside a component.
ComponentFindersAgree ==
    result.op = "findConnectedComponents" =>
        PartitionOf(result.components) =
            PartitionOf(findConnectedComponentsDFS(engine, tree))

\* findConnectedComponents has found two components
TwoComponentsFound ==
    /\ result.op = "findConnectedComponents"
    /\ Len(result.components) = 2

\* the ids of the anomalous leaves
AnomalousLeafIds(t) == {id \in LeafIds(t) : NodeAt(t.nodes, id).isAnomaly}

\* a and b do not overlap and share a piece of an edge
SharesEdge(a, b) ==
    \/ /\ a.col2 + 1 = b.col1 \/ b.col2 + 1 = a.col1
       /\ Max(a.row1, b.row1) <= Min(a.row2, b.row2)
    \/ /\ a.row2 + 1 = b.row1 \/ b.row2 + 1 = a.row1
       /\ Max(a.col1, b.col1) <= Min(a.col2, b.col2)

\* the ids of S linked to an id of seen by a chain of edge-adjacent members
RECURSIVE ChainClosure(_, _, _)
ChainClosure(t, S, seen) ==
    LET more == {y \in S \ seen :
                    \E x \in seen : SharesEdge(NodeAt(t.nodes, x).bounds,
                                               NodeAt(t.nodes, y).bounds)}
    IN  IF more = {} THEN seen ELSE ChainClosure(t, S, seen \cup more)

-----------------------------------------------------------------------------
(* C9 *)

\* a and b have a cell in common
Overlap(a, b) ==
    \E row \in a.row1..a.row2, col \in a.col1..a.col2 : contains(b, row, col)

\* a and b have no cell in common and meet at a single corner point
CornerTouch(a, b) ==
    /\ a.row2 + 1 = b.row1 \/ b.row2 + 1 = a.row1
    /\ a.col2 + 1 = b.col1 \/ b.col2 + 1 = a.col1

\* C9: for valid regions A and B, A.isAdjacentTo(B) = B.isAdjacentTo(A);
\* A.isAdjacentTo(A) is false; A.isAdjacentTo(B) is false when A and B
\* overlap, and when they touch only at a corner.
AdjacencyIsSymmetricEdgeSharing ==
    probe.applied =>
        /\ probe.ab = probe.ba
        /\ ~probe.aa
        /\ Overlap(probe.a, probe.b) => ~probe.ab
        /\ CornerTouch(probe.a, probe.b) => ~probe.ab

\* isAdjacentTo has been applied to two regions that touch only at a corner
CornerTouchProbed ==
    /\ probe.applied
    /\ CornerTouch(probe.a, probe.b)
    /\ area(probe.a) > 1

-----------------------------------------------------------------------------
(* C10 *)

\* |mean of the region - globalMean| / globalStdDev from the raster alone,
\* 0 when the standard deviation vanishes
ExpectedScore(img, region) ==
    LET whole == Region(0, 0, Len(img) - 1, Len(img[1]) - 1)
        n == area(whole)
        globalMean == Rat(bruteSum(img, whole, FALSE), n)
        variance == RatSub(Rat(bruteSum(img, whole, TRUE), n),
                           RatMul(globalMean, globalMean))
        mean == Rat(bruteSum(img, region, FALSE), area(region))
    IN  IF ~RatLess(RatZero, variance) THEN RealZero
        ELSE Real(RatAbs(RatSub(mean, globalMean)), variance)

\* score > threshold, decided on the squares
ExceedsThreshold(score, threshold) ==
    RatLess(RatMul(RatMul(threshold, threshold), score.root),
            RatMul(score.num, score.num))

\* C10: right after detectInTree every node, leaf or internal, has
\* anomalyScore = |mean of its region - globalMean| / globalStdDev (0 when
\* globalStdDev < 1e-10) and isAnomaly = (anomalyScore > threshold).
ScoresMatchDefinition ==
    (pc = "scored" /\ ps.built) =>
        \A i \in 1..Len(tree.nodes) :
            LET node == tree.nodes[i]
            IN  /\ node.anomalyScore = ExpectedScore(image, node.bounds)
                /\ node.isAnomaly = ExceedsThreshold(node.anomalyScore, det.threshold)

\* detectInTree has scored a tree with an anomalous node and a node below
\* the global mean that is not anomalous
TreeScored ==
    /\ pc = "scored"
    /\ \E i, j \in 1..Len(tree.nodes) :
          /\ tree.nodes[i].isAnomaly
          /\ ~tree.nodes[j].isAnomaly
          /\ RatLess(queryMean(ps, tree.nodes[j].bounds), ps.globalMean)

-----------------------------------------------------------------------------
(* C11 *)

\* a non-empty raster whose pixels all hold one value
ConstantRaster(img) ==
    /\ img \notin EmptyImages
    /\ \A r \in 1..Len(img) : \A c \in 1..Len(img[r]) : img[r][c] = img[1][1]

\* C11: on a raster whose pixels are all equal the global standard deviation
\* is 0, detectInTree gives every node the score 0 and marks none anomalous
\* whatever the positive threshold, so anomalousRegions is 0 and
\* findConnectedComponents returns no component.
ConstantRasterHasNoAnomaly ==
    (ConstantRaster(image) /\ pc \in {"scored", "ready"}) =>
        /\ ps.globalStdDev = RatZero
        /\ RatLess(RatZero, det.threshold)
        /\ \A i \in 1..Len(tree.nodes) :
              /\ tree.nodes[i].anomalyScore = RealZero
              /\ ~tree.nodes[i].isAnomaly
        /\ det.stats.anomalousRegions = 0
        /\ result.op = "findConnectedComponents" => result.components = <<>>

\* findConnectedComponents has run on the scored tree, of several leaves, of
\* a constant raster of non-zero pixels
ConstantRasterSearched ==
    /\ ConstantRaster(image)
    /\ image[1][1] > 0
    /\ det.detectionComplete
    /\ Len(getLeaves(tree)) > 1
    /\ result.op = "findConnectedComponents"

-----------------------------------------------------------------------------
(* C12 *)

\* the blocks of img whose first pixel is MAX_PIXEL
BrightBlocks(img) ==
    {b \in BlockGrid :
        img[b[1] * MIN_REGION_SIZE + 1][b[2] * MIN_REGION_SIZE + 1] = MAX_PIXEL}

\* img is the 64 x 64 raster that is 255 on the blocks of the set blocks and 0
\* elsewhere
IsBlockImage(img, blocks) ==
    /\ Len(img) = 64
    /\ MIN_REGION_SIZE = 16
    /\ MAX_PIXEL = 255
    /\ BrightBlocks(img) = blocks
    /\ img = BlockImage(blocks)

\* C12: on a 64 x 64 raster that is 0 except for one 16 x 16 corner block of
\* 255, with minRegionSize 16 and threshold 2.0, exactly one leaf is
\* anomalous, the leaf of that block, and topKAnomalies(1) returns that leaf.
CornerBlockIsTheAnomaly ==
    \A b \in CornerBlocks :
        (/\ pc \in {"scored", "ready"}
         /\ IsBlockImage(image, {b})
         /\ tree.minRegionSize = 16
         /\ det.threshold = Rat(2, 1)) =>
            LET an == AnomalousNodes(tree)
            IN  /\ Len(an) = 1
                /\ an[1].bounds = BlockRegion(b)
                /\ (result.op = "topKAnomalies" /\ result.k = 1) =>
                      /\ Len(result.query.regions) = 1
                      /\ result.query.regions[1].nodeId = an[1].id
                      /\ result.query.regions[1].region = BlockRegion(b)

\* topKAnomalies(1) has answered on the raster whose bright block is the
\* last corner, scored with the threshold 2.0
CornerBlockQueried ==
    /\ pc = "ready"
    /\ IsBlockImage(image, {<<3, 3>>})
    /\ det.threshold = Rat(2, 1)
    /\ result.op = "topKAnomalies"
    /\ result.k = 1
    /\ Len(result.query.regions) = 1

-----------------------------------------------------------------------------
(* C13 *)

\* the scored tree of a raster of two bright blocks, whose only anomalous
\* leaves are these two blocks
TwoBlocksAnomalous(a, b) ==
    /\ pc = "ready"
    /\ a # b
    /\ IsBlockImage(image, {a, b})
    /\ {n.bounds : n \in {AnomalousNodes(tree)[i] :
                               i \in 1..Len(AnomalousNodes(tree))}}
          = {BlockRegion(a), BlockRegion(b)}

\* the result of a component finder
ComponentsFound ==
    result.op \in {"findConnectedComponents", "findConnectedComponentsDFS"}

-----------------------------------------------------------------------------
(* C14 *)

\* C14: build on a raster without rows or with an empty first row leaves a
\* fresh index unbuilt, and on an unbuilt index querySum, querySumSquares and
\* queryMean return 0 and queryStats returns all-zero stats, whatever the
\* region.
UnbuiltIndexAnswersZero ==
    /\ (pc # "start" /\ image \in EmptyImages) => ~ps.built
    /\ (~ps.built /\ result.op = "queryStats") =>
          /\ result.sum = 0
          /\ result.sumSquares = 0
          /\ result.mean = RatZero
          /\ result.stats = RegionStatsZero

\* the index left unbuilt by the raster of one empty row has been queried on
\* a region of several cells
UnbuiltIndexQueried ==
    /\ image = <<<<>>>>
    /\ ~ps.built
    /\ result.op = "queryStats"
    /\ isValid(result.rect)
    /\ area(result.rect) > 1

-----------------------------------------------------------------------------
(* C15 *)

\* the valid region r has no cell in common with a raster of h rows and w
\* columns
FullyOutside(r, h, w) ==
    /\ isValid(r)
    /\ r.row2 < 0 \/ r.row1 >= h \/ r.col2 < 0 \/ r.col1 >= w

\* C15: on a built index a region fully outside the raster or inverted gets
\* 0 from querySum and querySumSquares and stats from queryStats whose sum,
\* area, mean, variance and stdDev are all 0.
OutsideOrInvertedIsZero ==
    (/\ ps.built
     /\ result.op = "queryStats"
     /\ ~isValid(result.rect) \/ FullyOutside(result.rect, ps.height, ps.width)) =>
        /\ result.sum = 0
        /\ result.sumSquares = 0
        /\ result.stats.sum = 0
        /\ result.stats.area = 0
        /\ result.stats.mean = RatZero
        /\ result.stats.variance = RatZero
        /\ result.stats.stdDev = RatZero

-----------------------------------------------------------------------------
(* C16 *)

\* C16: on a built and scored tree, queryRegion and queryRectangle return
\* nothing for a rectangle that is inverted or lies fully outside the raster.
InvertedOrOutsideIsEmpty ==
    (/\ pc = "ready"
     /\ ps.built
     /\ result.op = "queryRectangle"
     /\ ~isValid(result.rect) \/ FullyOutside(result.rect, ps.height, ps.width)) =>
        /\ result.matching = <<>>
        /\ result.query.regions = <<>>

-----------------------------------------------------------------------------
(* C17 *)

\* the ids of the leaves of t whose bounds have a cell in common with rect
IntersectingLeafIds(t, rect) ==
    {t.nodes[i].id : i \in {j \in 1..Len(t.nodes) :
                                /\ isLeaf(t.nodes[j])
                                /\ Overlap(t.nodes[j].bounds, rect)}}

\* the ids of the leaves of t with isAnomaly
AnomalousIds(t) ==
    {t.nodes[i].id : i \in {j \in 1..Len(t.nodes) :
                                isLeaf(t.nodes[j]) /\ t.nodes[j].isAnomaly}}

\* C17: for a rectangle with row1 <= row2 and col1 <= col2, queryRegion
\* returns exactly the leaves whose bounds intersect the rectangle, each
\* once, and queryRectangle returns exactly the anomalous ones among them,
\* each once, in non-increasing order of score.
QueryReturnsIntersectingLeaves ==
    (pc = "ready" /\ result.op = "queryRectangle" /\ isValid(result.rect)) =>
        LET matching == result.matching
            regions == result.query.regions
            wanted == IntersectingLeafIds(tree, result.rect)
        IN  /\ {matching[i].id : i \in 1..Len(matching)} = wanted
            /\ Len(matching) = Cardinality(wanted)
            /\ NodeIdsOf(regions) = wanted \cap AnomalousIds(tree)
            /\ Len(regions) = Cardinality(wanted \cap AnomalousIds(tree))
            /\ \A i \in 1..(Len(regions) - 1) :
                  ~RealLess(regions[i].anomalyScore, regions[i + 1].anomalyScore)

-----------------------------------------------------------------------------
(* C18 *)

\* the root of x along the parent pointers
RECURSIVE RootOf(_, _)
RootOf(uf, x) == IF uf.parent[x] = x THEN x ELSE RootOf(uf, uf.parent[x])

\* the partition of the elements read off the parent pointers
PartitionOfElements(uf, n) ==
    {{y \in 0..(n - 1) : RootOf(uf, y) = RootOf(uf, x)} : x \in 0..(n - 1)}

\* C18: unite(x, y) returns false and leaves the partition and the count as
\* they were when x and y are in one set; otherwise it returns true, merges
\* the sets of x and y and no others, and lowers the count by one.
\* getNumComponents() is the number of sets and connected(x, y) holds exactly
\* when x and y are in one set.
UniteMergesTwoSets ==
    dsu.phase = "uniting" =>
        LET last == dsu.last
            now == PartitionOfElements(dsu.uf, dsu.n)
            sx == SetOf(last.sets, last.x)
            sy == SetOf(last.sets, last.y)
        IN  /\ now = dsu.sets
            /\ getNumComponents(dsu.uf) = Cardinality(now)
            /\ last.op = "unite" =>
                  /\ last.ret = (sx # sy)
                  /\ ~last.ret =>
                        /\ now = last.sets
                        /\ getNumComponents(dsu.uf) = last.count
                  /\ last.ret =>
                        /\ now = (last.sets \ {sx, sy}) \cup {sx \cup sy}
                        /\ getNumComponents(dsu.uf) = last.count - 1
            /\ last.op = "connected" =>
                  /\ last.ret = (sx = sy)
                  /\ now = last.sets
                  /\ getNumComponents(dsu.uf) = last.count

\* connected has answered true for two elements of a set of three, while
\* another set is left
LargeSetConnected ==
    /\ dsu.phase = "uniting"
    /\ dsu.last.op = "connected"
    /\ dsu.last.ret = TRUE
    /\ dsu.last.x # dsu.last.y
    /\ Cardinality(SetOf(dsu.sets, dsu.last.x)) > 2
    /\ Cardinality(dsu.sets) > 1

-----------------------------------------------------------------------------
(* C19 *)

RECURSIVE SumOfWeights(_)
SumOfWeights(set) ==
    IF set = {} THEN 0
    ELSE LET x == CHOOSE e \in set : TRUE
         IN  Weight(x) + SumOfWeights(set \ {x})

\* C19: once setSize has given every singleton its weight, after any calls
\* of unite getSize(x) is the sum of the weights of the elements of the set
\* of x.
SizeIsSumOfWeights ==
    dsu.phase = "uniting" =>
        /\ \A x \in 0..(dsu.n - 1) :
              getSize(dsu.uf, x).ret = SumOfWeights(SetOf(dsu.sets, x))
        /\ dsu.last.op = "getSize" =>
              dsu.last.ret = SumOfWeights(SetOf(dsu.sets, dsu.last.x))

\* getSize has answered for an element that is not the root of its set
SizeOfMemberAsked ==
    /\ dsu.phase = "uniting"
    /\ dsu.last.op = "getSize"
    /\ dsu.uf.parent[dsu.last.x] # dsu.last.x
    /\ Cardinality(SetOf(dsu.sets, dsu.last.x)) > 2

-----------------------------------------------------------------------------
(* C20 *)

\* a call of detectInTree on a detector whose index is null or unbuilt
DetectWithoutIndex ==
    /\ pc \in {"tree", "detector"}
    /\ pc' \in {"scored", "unscored"}
    /\ det.prefixSum = "null" \/ ~ps.built

\* C20: detectInTree on a detector whose index is null or unbuilt changes no
\* node's anomalyScore or isAnomaly and leaves the statistics of the
\* detector as they were.
DetectWithoutIndexIsNoOp ==
    [][DetectWithoutIndex =>
          /\ Len(tree'.nodes) = Len(tree.nodes)
          /\ \A i \in 1..Len(tree.nodes) :
                /\ tree'.nodes[i].anomalyScore = tree.nodes[i].anomalyScore
                /\ tree'.nodes[i].isAnomaly = tree.nodes[i].isAnomaly
          /\ det'.stats = det.stats
          /\ det'.detectionComplete = det.detectionComplete]_vars

\* detectInTree has returned from a call on a detector without index and a
\* tree of several leaves
DetectedWithoutIndex ==
    /\ pc = "unscored"
    /\ det.prefixSum = "null"
    /\ Len(getLeaves(tree)) > 1

\* ---------------------------------------------------------------------
\* C21: splitting a region with an odd number of rows or columns

RegionHeight(r) == r.row2 - r.row1 + 1

RegionWidth(r) == r.col2 - r.col1 + 1

\* the ids of the nodes created by the frame of node p, in creation order
\* NW, NE, SW, SE
ChildIdsOf(t, p) ==
    {i \in 0..(Len(t.nodes) - 1) : NodeAt(t.nodes, i).parent = p}

\* 1..4: the position of node n among the nodes created by its parent
QuadrantOf(t, n) ==
    Cardinality({i \in ChildIdsOf(t, n.parent) : i < n.id}) + 1

\* node n covers quadrant q of the region P, the quadrants taking `north`
\* rows and `west` columns on the earlier side
CoversQuadrant(n, P, q, north, west) ==
    /\ RegionHeight(n.bounds) =
          IF q \in {1, 2} THEN north ELSE RegionHeight(P) - north
    /\ RegionWidth(n.bounds) =
          IF q \in {1, 3} THEN west ELSE RegionWidth(P) - west
    /\ IF q \in {1, 2} THEN n.bounds.row1 = P.row1 ELSE n.bounds.row2 = P.row2
    /\ IF q \in {1, 3} THEN n.bounds.col1 = P.col1 ELSE n.bounds.col2 = P.col2

\* C21 as stated: the earlier quadrants (NW/SW along the columns, NW/NE
\* along the rows) get the smaller half, floor(size / 2), and the later
\* quadrants, SE last, absorb the odd remainder.
LaterQuadrantsGetRemainder ==
    \A k \in 1..Len(tree.nodes) :
        LET n == tree.nodes[k]
        IN  n.parent >= 0 =>
              LET P == NodeAt(tree.nodes, n.parent).bounds
              IN  CoversQuadrant(n, P, QuadrantOf(tree, n),
                                 RegionHeight(P) \div 2, RegionWidth(P) \div 2)

\* C21 amended: the split point is the floor of the midpoint of the
\* inclusive bounds and the cell at the split point belongs to the earlier
\* quadrants, so NW/SW get the larger half of the columns, NW/NE the larger
\* half of the rows, and NW absorbs the odd remainder.
EarlierQuadrantsGetRemainder ==
    \A k \in 1..Len(tree.nodes) :
        LET n == tree.nodes[k]
        IN  n.parent >= 0 =>
              LET P == NodeAt(tree.nodes, n.parent).bounds
              IN  CoversQuadrant(n, P, QuadrantOf(tree, n),
                                 RegionHeight(P) - (RegionHeight(P) \div 2),
                                 RegionWidth(P) - (RegionWidth(P) \div 2))

\* a built tree in which a region with odd height and odd width was split
OddRegionSplit ==
    /\ pc = "tree"
    /\ \E k \in 1..Len(tree.nodes) :
          LET n == tree.nodes[k]
          IN  /\ n.parent >= 0
              /\ RegionHeight(NodeAt(tree.nodes, n.parent).bounds) % 2 = 1
              /\ RegionWidth(NodeAt(tree.nodes, n.parent).bounds) % 2 = 1
              /\ QuadrantOf(tree, n) = 4

\* ---------------------------------------------------------------------
\* C22: the order of the components and the largest one

RECURSIVE SumOfAreas(_, _, _)
SumOfAreas(t, ids, p) ==
    IF p > Len(ids) THEN 0
    ELSE area(NodeAt(t.nodes, ids[p]).bounds) + SumOfAreas(t, ids, p + 1)

\* a component finder, or findLargestConnectedRegion, has answered
ComponentListFound ==
    result.op \in {"findConnectedComponents", "findConnectedComponentsDFS",
                   "findLargestConnectedRegion"}

\* C22: the component lists of findConnectedComponents and
\* findConnectedComponentsDFS are in non-increasing order of totalArea,
\* each totalArea is the sum of the areas of the member leaves, and
\* findLargestConnectedRegion returns a component of maximal totalArea, or
\* the default component (id -1, totalArea 0) without an anomalous leaf.
ComponentsByDescendingArea ==
    ComponentListFound =>
        /\ \A i \in 1..(Len(result.components) - 1) :
              result.components[i].totalArea >= result.components[i + 1].totalArea
        /\ \A i \in 1..Len(result.components) :
              result.components[i].totalArea =
                  SumOfAreas(tree, result.components[i].nodeIndices, 1)
        /\ result.op = "findLargestConnectedRegion" =>
              IF Len(AnomalousNodes(tree)) = 0
              THEN /\ result.largest.id = -1
                   /\ result.largest.totalArea = 0
              ELSE /\ \E i \in 1..Len(result.components) :
                         result.largest = result.components[i]
                   /\ \A i \in 1..Len(result.components) :
                         result.largest.totalArea >= result.components[i].totalArea

\* findLargestConnectedRegion has answered with a component that was built
\* after a smaller one
LargestComponentBuiltLater ==
    /\ result.op = "findLargestConnectedRegion"
    /\ Len(result.components) >= 2
    /\ result.largest.totalArea > result.components[2].totalArea
    /\ result.largest.id > result.components[2].id

\* ---------------------------------------------------------------------
\* C23: the queries are read-only and repeatable

\* the answer in the state after the step is to a query asked in this step
QueryAnswers == result.op = "none" /\ result'.op # "none"

\* the same query with the same arguments
SameQuestion(a, b) == a.op = b.op /\ a.k = b.k /\ a.rect = b.rect

\* an answer kept earlier and the answer to the same question asked again
RepeatedQueryAgrees ==
    (kept.op # "none" /\ SameQuestion(kept, result)) => result = kept

\* C23: topKAnomalies, topKWithPruning, findConnectedComponents,
\* findConnectedComponentsDFS and queryRectangle leave every tree node, the
\* index, the detector and the engine unchanged, and a query asked again
\* after any sequence of other queries returns what it returned before.
QueriesAreReadOnlyAndRepeatable ==
    /\ []RepeatedQueryAgrees
    /\ [][QueryAnswers => /\ tree' = tree
                          /\ ps' = ps
                          /\ det' = det
                          /\ engine' = engine
                          /\ image' = image]_vars

\* findConnectedComponents has answered again, with components, after its
\* earlier answer was kept
ComponentsAskedAgain ==
    /\ kept.op = "findConnectedComponents"
    /\ result.op = "findConnectedComponents"
    /\ Len(result.components) >= 1

\* ---------------------------------------------------------------------
\* C24: the node collection after build

\* the region a lies within the region b
RegionInside(a, b) ==
    a.row1 >= b.row1 /\ a.row2 <= b.row2 /\ a.col1 >= b.col1 /\ a.col2 <= b.col2

\* RegionTree.build has completed on a built index
BuildCompleted == pc = "tree" /\ ps.built

\* C24: after RegionTree.build the nodes form a tree: nodes[i].id = i; the
\* root has depth 0 and parent -1; every other node n has
\* 0 <= n.parent < n.id, the depth of its parent plus one, bounds within its
\* parent's bounds and its id in exactly one children slot of its parent;
\* and every child index stored in a node refers to a node whose parent is
\* that node.
NodesFormTree ==
    BuildCompleted =>
        /\ \A k \in 1..Len(tree.nodes) : tree.nodes[k].id = k - 1
        /\ NodeAt(tree.nodes, tree.rootIndex).depth = 0
        /\ NodeAt(tree.nodes, tree.rootIndex).parent = -1
        /\ \A k \in 1..Len(tree.nodes) :
              LET n == tree.nodes[k]
              IN  n.id # tree.rootIndex =>
                    /\ 0 <= n.parent
                    /\ n.parent < n.id
                    /\ n.depth = NodeAt(tree.nodes, n.parent).depth + 1
                    /\ RegionInside(n.bounds, NodeAt(tree.nodes, n.parent).bounds)
                    /\ Cardinality({i \in 1..4 :
                          NodeAt(tree.nodes, n.parent).children[i] = n.id}) = 1
        /\ \A k \in 1..Len(tree.nodes) : \A i \in 1..4 :
              LET c == tree.nodes[k].children[i]
              IN  c >= 0 => /\ c < Len(tree.nodes)
                            /\ NodeAt(tree.nodes, c).parent = tree.nodes[k].id

\* ---------------------------------------------------------------------
\* C25: the heap during the scans

\* a scan of topKAnomalies or topKWithPruning is under way
Scanning == result.op \in {"topKAnomalies scan", "topKWithPruning scan"}

\* C25: at every step of the scan in topKAnomalies and topKWithPruning the
\* heap holds at most K elements, and top(), which the candidate is compared
\* against and which is evicted, has the minimum score of those held.
HeapTopIsMinimum ==
    (Scanning /\ result.k >= 1) =>
        /\ Len(result.heap) <= result.k
        /\ \A i \in 1..Len(result.heap) :
              ~RealLess(result.heap[i].anomalyScore,
                        HeapTop(result.heap).anomalyScore)

\* ---------------------------------------------------------------------
\* C26: union by rank

\* the step is a call of unite that returned true
UniteSucceeds ==
    /\ dsu'.last.op = "unite"
    /\ dsu'.last.ret = TRUE
    /\ dsu'.uf # dsu.uf

\* the root loser is attached under the root winner, and the ranks change
\* by `bump` at the winner only
AttachedUnder(before, after, loser, winner, bump) ==
    /\ after.parent[loser] = winner
    /\ after.parent[winner] = winner
    /\ after.rank = [before.rank EXCEPT ![winner] = @ + bump]
    /\ \A e \in DOMAIN before.parent :
          IF before.parent[e] = e
          THEN after.parent[e] # e => e = loser
          ELSE after.parent[e] \in {before.parent[e], RootOf(before, e)}

\* C26: a successful unite attaches the root of lower rank under the root
\* of higher rank and changes no rank; with equal ranks one root is attached
\* under the other and only the surviving root's rank grows, by one; among
\* the roots only the attached one gets a new parent.
UniteByRank ==
    [][UniteSucceeds =>
          LET before == dsu.uf
              after == dsu'.uf
              rootX == RootOf(before, dsu'.last.x)
              rootY == RootOf(before, dsu'.last.y)
          IN  /\ rootX # rootY
              /\ IF before.rank[rootX] < before.rank[rootY]
                 THEN AttachedUnder(before, after, rootX, rootY, 0)
                 ELSE IF before.rank[rootX] > before.rank[rootY]
                 THEN AttachedUnder(before, after, rootY, rootX, 0)
                 ELSE \/ AttachedUnder(before, after, rootY, rootX, 1)
                      \/ AttachedUnder(before, after, rootX, rootY, 1)]_vars

\* unite(x, y) has attached the root of the single element x under the root
\* of the two-element set of y, whose rank is higher
SingletonAttachedUnderPair ==
    /\ dsu.last.op = "unite"
    /\ dsu.last.ret = TRUE
    /\ Cardinality(SetOf(dsu.last.sets, dsu.last.x)) = 1
    /\ Cardinality(SetOf(dsu.last.sets, dsu.last.y)) = 2
    /\ dsu.uf.parent[dsu.last.x] # dsu.last.x
    /\ dsu.uf.rank[dsu.uf.parent[dsu.last.x]] = 1

\* ---------------------------------------------------------------------
\* C27: the capacity reserved by build

\* C27: the nodes appended during RegionTree.build never exceed the
\* capacity reserved up front, (height / minSize + 1) * (width / minSize + 1)
\* * 2, so the node vector is never reallocated during the build and every
\* child index written through the reference of a recursive call is stored
\* in the live node collection.
ReserveCoversBuild ==
    (ps.built /\ pc \in {"tree", "crashed"}) =>
        /\ Len(tree.nodes) <= estimatedNodes(ps, tree.minRegionSize)
        /\ tree.reallocs = 0
        /\ tree.staleWrites = 0

\* ---------------------------------------------------------------------
\* C28: top() of an empty heap

\* C28: for every K >= 0 and every tree, empty or built, topKAnomalies and
\* topKWithPruning never read top() of an empty heap, and with K = 0 they
\* return an empty region list.
TopIsNeverReadOnEmptyHeap ==
    /\ result.emptyTopReads = 0
    /\ (result.op \in {"topKAnomalies", "topKWithPruning"} /\ result.k = 0) =>
          Len(result.query.regions) = 0

\* ---------------------------------------------------------------------
\* C29: the recursion of build

\* C29: RegionTree.build terminates for every built index and minSize >= 1:
\* a node is a leaf exactly when its height or width is <= minSize, every
\* internal node has both dimensions >= 2 and exactly four valid children,
\* and each child's region is strictly smaller than its parent's.
LeavesAreSmallAndSplitsShrink ==
    BuildCompleted =>
        \A k \in 1..Len(tree.nodes) :
            LET n == tree.nodes[k]
            IN  /\ isLeaf(n) <=> (\/ RegionHeight(n.bounds) <= tree.minRegionSize
                                  \/ RegionWidth(n.bounds) <= tree.minRegionSize)
                /\ ~isLeaf(n) =>
                      /\ RegionHeight(n.bounds) >= 2
                      /\ RegionWidth(n.bounds) >= 2
                      /\ \A i \in 1..4 :
                            /\ n.children[i] >= 0
                            /\ n.children[i] < Len(tree.nodes)
                            /\ isValid(NodeAt(tree.nodes, n.children[i]).bounds)
                            /\ area(NodeAt(tree.nodes, n.children[i]).bounds)
                                  < area(n.bounds)

\* ---------------------------------------------------------------------
\* C30: QueryEngine::areAdjacent against Region::isAdjacentTo

====
